---------------------------- MODULE Spec2Model ----------------------------
(***************************************************************************)
(* TrackNest: the REST handlers of server/routes/api.js over the           *)
(* relational store.                                                       *)
(*                                                                         *)
(* Every handler is an async function that awaits one SQL statement after  *)
(* another, so two requests interleave exactly at the statements.  Each    *)
(* action below is one statement of one handler together with the          *)
(* JavaScript that runs until the next await (or the response).  The       *)
(* arrival of a request is merged with its first statement: nothing of a   *)
(* request is observable before that statement runs.                       *)
(*                                                                         *)
(* The tables are bags of rows, so that a duplicate row is representable   *)
(* and uniqueness is something to check.  Columns that no handler reads    *)
(* back into a decision (creationDate, likeDate, duration) are left out.   *)
(***************************************************************************)
EXTENDS Integers, FiniteSets, Sequences, Bags, TLC

VARIABLES
    Song,       \* set of Song rows [songTitle, artistName, albumTitle]: the catalog
    TopChart,   \* set of TopChart rows [chartName, chartDate]
    ChartEntry, \* set of ChartEntry rows [chartName, chartDate, songTitle, artistName, albumTitle]
    User,       \* bag of User rows [username, email, password]
    Playlist,   \* bag of Playlist rows [name, username]
    Inclusion,  \* bag of Inclusion rows [name, username, songTitle, artistName, albumTitle]
    UserLike,   \* bag of UserLike rows [username, songTitle, artistName, albumTitle]
    req,        \* req[r]: the request being served on connection r
    page        \* the state of the client page that is open, if one is

\* The tables no route writes.
catalog == <<Song, TopChart, ChartEntry>>
tables == <<catalog, User, Playlist, Inclusion, UserLike>>
vars == <<tables, req, page>>

(***************************************************************************)
(* The universe of the model.                                              *)
(***************************************************************************)
\* Connections that carry requests; two make a race.
Reqs == {"r1", "r2"}

\* Identities a verified x-auth-token can carry (payload.user.id).
Users == {"alice", "bob"}

\* Playlist names a request can carry in :name or in the body.
PlaylistNames == {"mix"}

SongRow(t, a, al) == [songTitle |-> t, artistName |-> a, albumTitle |-> al]

\* The songs a catalog is loaded from.  Most share a title, an artist or an
\* album with another: only the triple is the key.
Catalog == <<SongRow("Intro", "X", "Y"), SongRow("Intro", "Z", "W"),
             SongRow("Intro", "Z", "Y"), SongRow("Outro", "X", "Y"),
             SongRow("Coda", "Z", "V")>>

\* How many songs the catalog holds where two songs must be told apart.
NumSongs == 2

CatalogOf(k) == {Catalog[i] : i \in 1..k}

\* A triple whose every column value occurs in the catalog, but not together.
AbsentSong == SongRow("Intro", "X", "W")

\* A body with songTitle missing.
BlankSong == SongRow("", "X", "Y")

\* What a request body can carry as (songTitle, artistName, albumTitle).
SongInputs == Song \cup {AbsentSong, BlankSong}

\* What POST /playlists can carry as name ("" is a missing name).
NameInputs == PlaylistNames \cup {""}

\* bcrypt: a hash carries the salt it was made with, and compare() hashes the
\* candidate with that salt and compares the results.
Salts == {"s1", "s2"}
Hash(password, salt) == [salt |-> salt, digest |-> <<salt, password>>]
\* compare() that accepts every candidate.
Compare_any(password, hashed) == TRUE
Compare(password, hashed) == Hash(password, hashed.salt) = hashed

NewUserRow(username, email, hashed) ==
    [username |-> username, email |-> email, password |-> hashed]
\* The rows the store starts with: a user's email and password are spelled
\* like the username.
UserRow(u) == NewUserRow(u, u, Hash(u, "s1"))
PlaylistRow(n, u) == [name |-> n, username |-> u]
InclusionRow(n, u, s) ==
    [name |-> n, username |-> u, songTitle |-> s.songTitle,
     artistName |-> s.artistName, albumTitle |-> s.albumTitle]
UserLikeRow(u, s) ==
    [username |-> u, songTitle |-> s.songTitle,
     artistName |-> s.artistName, albumTitle |-> s.albumTitle]
SongOf(row) == SongRow(row.songTitle, row.artistName, row.albumTitle)

(***************************************************************************)
(* Statements on a table.                                                  *)
(***************************************************************************)
Rows(T) == BagToSet(T)
\* SELECT ... FROM T WHERE Match
Select(T, Match(_)) == {row \in Rows(T) : Match(row)}
\* DELETE FROM T WHERE Match: every copy of every matching row goes.
DeleteWhere(T, Match(_)) == [row \in {x \in Rows(T) : ~Match(x)} |-> T[row]]
\* INSERT INTO T VALUES row, once the store has accepted it.
InsertRow(T, row) == T (+) SetToBag({row})

(***************************************************************************)
(* The schema.  The CREATE TABLE statements are not among the sources; the *)
(* constraints are taken from the specification: the composite keys are    *)
(* unique, and the ON DELETE CASCADE foreign keys Playlist -> User,        *)
(* UserLike -> User and Inclusion -> Playlist reject a child row without   *)
(* its parent row.                                                         *)
(***************************************************************************)
UserExists(u) == \E row \in Rows(User) : row.username = u
PlaylistExists(n, u) == BagIn(PlaylistRow(n, u), Playlist)

\* UserLike without its key: a second copy of a row is accepted.
UserLikeAccepts_noKey(row) == UserExists(row.username)

UserLikeAccepts(row) ==
    /\ ~BagIn(row, UserLike)
    /\ UserExists(row.username)

PlaylistAccepts(row) ==
    /\ ~BagIn(row, Playlist)
    /\ UserExists(row.username)

\* Inclusion without its foreign key: a row of no playlist is accepted.
InclusionAccepts_noParent(row) == ~BagIn(row, Inclusion)

\* Inclusion without its key: a second copy of a row is accepted.
InclusionAccepts_noKey(row) == PlaylistExists(row.name, row.username)

InclusionAccepts(row) ==
    /\ ~BagIn(row, Inclusion)
    /\ PlaylistExists(row.name, row.username)

\* ON DELETE CASCADE: the children of the parent rows that are gone go too.
CascadePlaylist(P, U) ==
    DeleteWhere(P, LAMBDA row : \A parent \in Rows(U) : parent.username # row.username)
CascadeUserLike(L, U) ==
    DeleteWhere(L, LAMBDA row : \A parent \in Rows(U) : parent.username # row.username)
CascadeInclusion(I, P) ==
    DeleteWhere(I, LAMBDA row : ~BagIn(PlaylistRow(row.name, row.username), P))

(***************************************************************************)
(* Requests and responses.                                                 *)
(***************************************************************************)
NoSong == SongRow("-", "-", "-")
Idle == [pc |-> "idle", route |-> "-", user |-> "-", name |-> "-",
         song |-> NoSong, status |-> 0, message |-> "-"]

\* res.status(status).json({message}): the handler is over, and what stays
\* of the request is the response.
Response(route, status, message) ==
    [pc |-> "done", route |-> route, user |-> "-", name |-> "-",
     song |-> NoSong, status |-> status, message |-> message]

\* The handler has issued its next statement and awaits it.
Awaiting(pc, route, u, n, s) ==
    [pc |-> pc, route |-> route, user |-> u, name |-> n,
     song |-> s, status |-> 0, message |-> "-"]

Free(r) == req[r].pc \in {"idle", "done"}
At(r, pc) == req[r].pc = pc
\* A handler that answers in the step it arrives in.
Answer(r, route, status, message) ==
    req' = [req EXCEPT ![r] = Response(route, status, message)]
\* A handler that goes on to await its next statement after arriving.
Await(r, pc, route, u, n, s) ==
    req' = [req EXCEPT ![r] = Awaiting(pc, route, u, n, s)]
\* A handler that answers after a later statement.
Respond(r, status, message) ==
    req' = [req EXCEPT ![r] = Response(req[r].route, status, message)]
Goto(r, pc) == req' = [req EXCEPT ![r].pc = pc]

\* !songTitle || !artistName || !albumTitle
MissingField(s) == s.songTitle = "" \/ s.artistName = "" \/ s.albumTitle = ""

\* The query with the title as its only column.
SongExists_titleOnly(s) == {row \in Song : row.songTitle = s.songTitle} # {}

\* SELECT * FROM Song WHERE songTitle = ? AND artistName = ? AND albumTitle = ?
SongExists(s) ==
    {row \in Song : /\ row.songTitle = s.songTitle
                    /\ row.artistName = s.artistName
                    /\ row.albumTitle = s.albumTitle} # {}

\* The query with the title as the only song column.
Liked_titleOnly(u, s) ==
    Select(UserLike, LAMBDA row : /\ row.username = u
                                  /\ row.songTitle = s.songTitle) # {}

\* SELECT * FROM UserLike WHERE username, songTitle, artistName, albumTitle = ?
Liked(u, s) ==
    Select(UserLike, LAMBDA row : /\ row.username = u
                                  /\ row.songTitle = s.songTitle
                                  /\ row.artistName = s.artistName
                                  /\ row.albumTitle = s.albumTitle) # {}

\* SELECT name FROM Playlist WHERE name = ? AND username = ?
OwnsPlaylist(u, n) ==
    Select(Playlist, LAMBDA row : row.name = n /\ row.username = u) # {}

\* SELECT * FROM Inclusion WHERE name, username, songTitle, artistName, albumTitle = ?
Included(n, u, s) ==
    Select(Inclusion, LAMBDA row : /\ row.name = n
                                   /\ row.username = u
                                   /\ row.songTitle = s.songTitle
                                   /\ row.artistName = s.artistName
                                   /\ row.albumTitle = s.albumTitle) # {}

ProvideSong == "Please provide songTitle, artistName, and albumTitle."

(***************************************************************************)
(* POST /likes                                                             *)
(***************************************************************************)
\* Arrival, input validation and the songExists query.
PostLikes(r, u, s) ==
    /\ Free(r)
    /\ IF MissingField(s)
       THEN Answer(r, "POST /likes", 400, ProvideSong)
       ELSE IF ~SongExists(s)
       THEN Answer(r, "POST /likes", 404, "Song not found.")
       ELSE Await(r, "likes_alreadyLiked", "POST /likes", u, "-", s)
    /\ UNCHANGED <<tables, page>>

\* The alreadyLiked query.
PostLikes_alreadyLiked(r) ==
    /\ At(r, "likes_alreadyLiked")
    /\ IF Liked(req[r].user, req[r].song)
       THEN Respond(r, 400, "Song is already liked.")
       ELSE Goto(r, "likes_insert")
    /\ UNCHANGED <<tables, page>>

\* The insert with a catch block that answers a rejected insert as the
\* already-liked check would.
PostLikes_insert_conflict(r) ==
    /\ At(r, "likes_insert")
    /\ LET row == UserLikeRow(req[r].user, req[r].song) IN
       IF UserLikeAccepts(row)
       THEN /\ UserLike' = InsertRow(UserLike, row)
            /\ Respond(r, 201, "Song liked successfully.")
       ELSE /\ UserLike' = UserLike
            /\ Respond(r, 400, "Song is already liked.")
    /\ UNCHANGED <<catalog, page, User, Playlist, Inclusion>>

\* INSERT INTO UserLike; a rejected insert throws into the catch block.
PostLikes_insert(r) ==
    /\ At(r, "likes_insert")
    /\ LET row == UserLikeRow(req[r].user, req[r].song) IN
       IF UserLikeAccepts(row)
       THEN /\ UserLike' = InsertRow(UserLike, row)
            /\ Respond(r, 201, "Song liked successfully.")
       ELSE /\ UserLike' = UserLike
            /\ Respond(r, 500, "Server error while liking song. Please try again later.")
    /\ UNCHANGED <<catalog, page, User, Playlist, Inclusion>>

(***************************************************************************)
(* DELETE /likes                                                           *)
(***************************************************************************)
\* Arrival, input validation and the likedSong query.
DeleteLikes(r, u, s) ==
    /\ Free(r)
    /\ IF MissingField(s)
       THEN Answer(r, "DELETE /likes", 400, ProvideSong)
       ELSE IF ~Liked(u, s)
       THEN Answer(r, "DELETE /likes", 404,
                   "Song is not in your liked songs.")
       ELSE Await(r, "unlike_delete", "DELETE /likes", u, "-", s)
    /\ UNCHANGED <<tables, page>>

\* The statement with the WHERE clause cut to the username.
DeleteUserLike_byUser(T, u, s) == DeleteWhere(T, LAMBDA row : row.username = u)

\* DELETE FROM UserLike WHERE username, songTitle, artistName, albumTitle = ?
DeleteUserLike(T, u, s) ==
    DeleteWhere(T, LAMBDA row : /\ row.username = u
                                /\ row.songTitle = s.songTitle
                                /\ row.artistName = s.artistName
                                /\ row.albumTitle = s.albumTitle)

DeleteLikes_delete(r) ==
    /\ At(r, "unlike_delete")
    /\ UserLike' = DeleteUserLike(UserLike, req[r].user, req[r].song)
    /\ Respond(r, 200, "Song unliked successfully.")
    /\ UNCHANGED <<catalog, page, User, Playlist, Inclusion>>

(***************************************************************************)
(* DELETE /profile                                                         *)
(***************************************************************************)
\* The statement without its WHERE clause.
DeleteUser_all(T, u) == DeleteWhere(T, LAMBDA row : TRUE)

\* DELETE FROM User WHERE username = ?
DeleteUser(T, u) == DeleteWhere(T, LAMBDA row : row.username = u)

DeleteProfile(r, u) ==
    /\ Free(r)
    /\ LET users == DeleteUser(User, u)
           playlists == CascadePlaylist(Playlist, users)
       IN /\ User' = users
          /\ Playlist' = playlists
          /\ UserLike' = CascadeUserLike(UserLike, users)
          /\ Inclusion' = CascadeInclusion(Inclusion, playlists)
    /\ Answer(r, "DELETE /profile", 200,
              "Your account has been deleted successfully.")
    /\ UNCHANGED <<catalog, page>>

(***************************************************************************)
(* POST /playlists                                                         *)
(***************************************************************************)
\* The handler with the username dropped from the existingPlaylist query.
PostPlaylists_nameOnly(r, u, n) ==
    /\ Free(r)
    /\ IF n = ""
       THEN Answer(r, "POST /playlists", 400, "Please provide a playlist name.")
       ELSE IF Select(Playlist, LAMBDA row : row.name = n) # {}
       THEN Answer(r, "POST /playlists", 400,
                   "Playlist with this name already exists.")
       ELSE Await(r, "playlists_insert", "POST /playlists", u, n, NoSong)
    /\ UNCHANGED <<tables, page>>

\* Arrival, input validation and the existingPlaylist query.
PostPlaylists(r, u, n) ==
    /\ Free(r)
    /\ IF n = ""
       THEN Answer(r, "POST /playlists", 400,
                   "Please provide a playlist name.")
       ELSE IF OwnsPlaylist(u, n)
       THEN Answer(r, "POST /playlists", 400,
                   "Playlist with this name already exists.")
       ELSE Await(r, "playlists_insert", "POST /playlists", u, n, NoSong)
    /\ UNCHANGED <<tables, page>>

\* INSERT INTO Playlist; a rejected insert throws into the catch block.
PostPlaylists_insert(r) ==
    /\ At(r, "playlists_insert")
    /\ LET row == PlaylistRow(req[r].name, req[r].user) IN
       IF PlaylistAccepts(row)
       THEN /\ Playlist' = InsertRow(Playlist, row)
            /\ Respond(r, 201, "Playlist created successfully.")
       ELSE /\ Playlist' = Playlist
            /\ Respond(r, 500,
                       "Server error while creating playlist. Please try again later.")
    /\ UNCHANGED <<catalog, page, User, Inclusion, UserLike>>

(***************************************************************************)
(* DELETE /playlists/:name                                                 *)
(***************************************************************************)
\* Arrival and the playlist query.
DeletePlaylist(r, u, n) ==
    /\ Free(r)
    /\ IF ~OwnsPlaylist(u, n)
       THEN Answer(r, "DELETE /playlists/:name", 404,
                   "Playlist not found.")
       ELSE Await(r, "playlist_delete", "DELETE /playlists/:name", u, n, NoSong)
    /\ UNCHANGED <<tables, page>>

\* The statement with the WHERE clause cut to the name.
DeletePlaylistRows_byName(T, n, u) == DeleteWhere(T, LAMBDA row : row.name = n)

\* DELETE FROM Playlist WHERE name = ? AND username = ?
DeletePlaylistRows(T, n, u) ==
    DeleteWhere(T, LAMBDA row : row.name = n /\ row.username = u)

DeletePlaylist_delete(r) ==
    /\ At(r, "playlist_delete")
    /\ LET playlists == DeletePlaylistRows(Playlist, req[r].name, req[r].user) IN
          /\ Playlist' = playlists
          /\ Inclusion' = CascadeInclusion(Inclusion, playlists)
    /\ Respond(r, 200, "Playlist deleted successfully.")
    /\ UNCHANGED <<catalog, page, User, UserLike>>

(***************************************************************************)
(* POST /playlists/:name/songs                                             *)
(***************************************************************************)
\* Arrival, input validation and the playlist query.
PostPlaylistSongs(r, u, n, s) ==
    /\ Free(r)
    /\ IF MissingField(s)
       THEN Answer(r, "POST /playlists/:name/songs", 400, ProvideSong)
       ELSE IF ~OwnsPlaylist(u, n)
       THEN Answer(r, "POST /playlists/:name/songs", 404,
                   "Playlist not found.")
       ELSE Await(r, "songs_song", "POST /playlists/:name/songs", u, n, s)
    /\ UNCHANGED <<tables, page>>

\* The handler without its song query.
PostPlaylistSongs_song_skipped(r) ==
    /\ At(r, "songs_song")
    /\ Goto(r, "songs_existingInclusion")
    /\ UNCHANGED <<tables, page>>

\* The song query.
PostPlaylistSongs_song(r) ==
    /\ At(r, "songs_song")
    /\ IF ~SongExists(req[r].song)
       THEN Respond(r, 404, "Song not found.")
       ELSE Goto(r, "songs_existingInclusion")
    /\ UNCHANGED <<tables, page>>

\* The existingInclusion query.
PostPlaylistSongs_existingInclusion(r) ==
    /\ At(r, "songs_existingInclusion")
    /\ IF Included(req[r].name, req[r].user, req[r].song)
       THEN Respond(r, 400, "Song is already in the playlist.")
       ELSE Goto(r, "songs_insert")
    /\ UNCHANGED <<tables, page>>

\* INSERT INTO Inclusion; a rejected insert throws into the catch block.
PostPlaylistSongs_insert(r) ==
    /\ At(r, "songs_insert")
    /\ LET row == InclusionRow(req[r].name, req[r].user, req[r].song) IN
       IF InclusionAccepts(row)
       THEN /\ Inclusion' = InsertRow(Inclusion, row)
            /\ Respond(r, 201, "Song added to playlist successfully.")
       ELSE /\ Inclusion' = Inclusion
            /\ Respond(r, 500,
                       "Server error while adding song to playlist. Please try again later.")
    /\ UNCHANGED <<catalog, page, User, Playlist, UserLike>>

(***************************************************************************)
(* DELETE /playlists/:name/songs                                           *)
(***************************************************************************)
\* Arrival, input validation and the playlist query.
DeletePlaylistSongs(r, u, n, s) ==
    /\ Free(r)
    /\ IF MissingField(s)
       THEN Answer(r, "DELETE /playlists/:name/songs", 400, ProvideSong)
       ELSE IF ~OwnsPlaylist(u, n)
       THEN Answer(r, "DELETE /playlists/:name/songs", 404,
                   "Playlist not found.")
       ELSE Await(r, "unsong_inclusion", "DELETE /playlists/:name/songs", u, n, s)
    /\ UNCHANGED <<tables, page>>

\* The inclusion query.
DeletePlaylistSongs_inclusion(r) ==
    /\ At(r, "unsong_inclusion")
    /\ IF ~Included(req[r].name, req[r].user, req[r].song)
       THEN Respond(r, 404, "Song not found in the playlist.")
       ELSE Goto(r, "unsong_delete")
    /\ UNCHANGED <<tables, page>>

\* The statement with the username dropped from the WHERE clause.
DeleteInclusion_anyUser(T, n, u, s) ==
    DeleteWhere(T, LAMBDA row : /\ row.name = n
                                /\ row.songTitle = s.songTitle
                                /\ row.artistName = s.artistName
                                /\ row.albumTitle = s.albumTitle)

\* DELETE FROM Inclusion WHERE name, username, songTitle, artistName, albumTitle = ?
DeleteInclusion(T, n, u, s) ==
    DeleteWhere(T, LAMBDA row : /\ row.name = n
                                /\ row.username = u
                                /\ row.songTitle = s.songTitle
                                /\ row.artistName = s.artistName
                                /\ row.albumTitle = s.albumTitle)

DeletePlaylistSongs_delete(r) ==
    /\ At(r, "unsong_delete")
    /\ Inclusion' = DeleteInclusion(Inclusion, req[r].name, req[r].user, req[r].song)
    /\ Respond(r, 200, "Song removed from playlist successfully.")
    /\ UNCHANGED <<catalog, page, User, Playlist, UserLike>>

(***************************************************************************)
(* GET /playlists/all and GET /playlists/:username/:name/songs read only;  *)
(* each is the answer the handler gives when it runs in the current state. *)
(***************************************************************************)
\* SELECT name, username, creationDate FROM Playlist
GetPlaylistsAll == [status |-> 200, body |-> Rows(Playlist)]

\* The playlist query, then Inclusion JOIN Song on the triple.
GetPlaylistSongs(username, name) ==
    IF Select(Playlist, LAMBDA row : row.name = name /\ row.username = username) = {}
    THEN [status |-> 404, body |-> {}]
    ELSE [status |-> 200,
          body |-> {s \in Song :
                      \E row \in Rows(Inclusion) :
                         /\ row.name = name /\ row.username = username
                         /\ row.songTitle = s.songTitle
                         /\ row.artistName = s.artistName
                         /\ row.albumTitle = s.albumTitle}]

(***************************************************************************)
(* The catalog's other columns and tables.  No route writes them.  The     *)
(* data is not among the sources; following the specification, every song  *)
(* has exactly one Classification row, and the Artist, Album and Genre     *)
(* rows that its columns name exist.                                       *)
(***************************************************************************)
\* Song.plays
Plays(s) ==
    CASE s = Catalog[1] -> 30
      [] s = Catalog[2] -> 20
      [] s = Catalog[3] -> 20
      [] s = Catalog[4] -> 10
      [] s = Catalog[5] -> 5

\* The genre the catalog files a song under.
GenreOf(s) ==
    CASE s = Catalog[1] -> "rock"
      [] s = Catalog[2] -> "pop"
      [] s = Catalog[3] -> "rock"
      [] s = Catalog[4] -> "pop"
      [] s = Catalog[5] -> "jazz"

ClassificationRow(s, g) ==
    [songTitle |-> s.songTitle, artistName |-> s.artistName,
     albumTitle |-> s.albumTitle, genreName |-> g]

Classification == {ClassificationRow(s, GenreOf(s)) : s \in Song}

\* The rows of a set in an order that ORDER BY leaves open only among the
\* rows it does not tell apart: Before(x, y) says x must come before y.
OrderBy(rows, Before(_, _)) ==
    {q \in [1..Cardinality(rows) -> rows] :
        /\ \A x \in rows : \E i \in DOMAIN q : q[i] = x
        /\ \A i, j \in DOMAIN q : i < j => ~Before(q[j], q[i])}

\* res.json(rows): a response that carries rows rather than a message.
Reply(route, u, status, body) ==
    [pc |-> "done", route |-> route, user |-> u, name |-> "-", song |-> NoSong,
     status |-> status, message |-> "-", body |-> body]

(***************************************************************************)
(* GET /recommendations: one aggregate query.                              *)
(***************************************************************************)
LikesOf(u) == Select(UserLike, LAMBDA row : row.username = u)

\* The query without the rows of its artist join.
LikedArtists_none(u) == {}

\* SELECT DISTINCT artistName FROM UserLike WHERE username = ?
LikedArtists(u) == {row.artistName : row \in LikesOf(u)}

\* SELECT DISTINCT albumTitle FROM UserLike WHERE username = ?
LikedAlbums(u) == {row.albumTitle : row \in LikesOf(u)}

\* SELECT DISTINCT c2.genreName FROM UserLike ul JOIN Classification c2 ON the triple
LikedGenres(u) ==
    {c2.genreName : c2 \in {c \in Classification :
                               \E ul \in LikesOf(u) : SongOf(ul) = SongOf(c)}}

\* The query without its WHERE NOT EXISTS clause.
NotLiked_dropped(u, s) == TRUE

\* WHERE NOT EXISTS (SELECT 1 FROM UserLike ul2 WHERE username and the triple match)
NotLiked(u, s) ==
    ~\E ul2 \in Rows(UserLike) : /\ ul2.username = u
                                 /\ ul2.songTitle = s.songTitle
                                 /\ ul2.artistName = s.artistName
                                 /\ ul2.albumTitle = s.albumTitle

\* The score with every liked song counted, not every distinct value.
Score_perLike(u, s, c) ==
    3 * Cardinality({ul \in LikesOf(u) : ul.artistName = s.artistName})
    + 2 * Cardinality({ul \in LikesOf(u) : ul.albumTitle = s.albumTitle})
    + 1 * Cardinality({ul \in LikesOf(u) :
                          \E c2 \in Classification :
                             SongOf(c2) = SongOf(ul) /\ c2.genreName = c.genreName})

\* 3 * COUNT(DISTINCT a.artistName) + 2 * COUNT(DISTINCT al.albumTitle)
\*   + 1 * COUNT(DISTINCT g.genreName), over the group of (s, c.genreName):
\* each LEFT JOIN brings the rows of its derived table that equal the
\* song's artistName, the song's albumTitle, the row's genreName.
Score(u, s, c) ==
    3 * Cardinality({a \in LikedArtists(u) : a = s.artistName})
    + 2 * Cardinality({al \in LikedAlbums(u) : al = s.albumTitle})
    + 1 * Cardinality({g \in LikedGenres(u) : g = c.genreName})

RecommendationRow(u, s, c) ==
    [songTitle |-> s.songTitle, artistName |-> s.artistName,
     albumTitle |-> s.albumTitle, plays |-> Plays(s),
     genreName |-> c.genreName, score |-> Score(u, s, c)]

\* FROM Song s JOIN Classification c ... WHERE ... GROUP BY ... HAVING score > 0
Recommendations(u) ==
    {RecommendationRow(u, s, c) :
        <<s, c>> \in {x \in Song \X Classification :
                         /\ SongOf(x[2]) = x[1]
                         /\ NotLiked(u, x[1])
                         /\ Score(u, x[1], x[2]) > 0}}

\* ORDER BY score DESC, s.plays DESC
GetRecommendations(r, u) ==
    /\ Free(r)
    /\ \E body \in OrderBy(Recommendations(u),
                           LAMBDA x, y : \/ x.score > y.score
                                         \/ x.score = y.score /\ x.plays > y.plays) :
          req' = [req EXCEPT ![r] = Reply("GET /recommendations", u, 200, body)]
    /\ UNCHANGED <<tables, page>>

(***************************************************************************)
(* Credentials.  A token is what jwt.sign made of {user: {id, email}} at   *)
(* login, or something else in the x-auth-token header; jwt.verify throws  *)
(* on a token that is expired or not signed with the secret.               *)
(***************************************************************************)
Token(kind, u) == [kind |-> kind, user |-> u]
\* No x-auth-token header.
NoToken == Token("none", "-")
Tokens == {Token("signed", u) : u \in Users}
             \cup {Token("expired", "alice"), Token("forged", "bob")}
Credentials == {NoToken} \cup Tokens

\* jwt.verify(token, process.env.JWT_SECRET) returns the payload.
Verifies(token) == token.kind = "signed"

NoUser == "-"

\* authOptional with the catch branch attaching the identity all the same.
authOptional_noVerify(token) == IF token = NoToken THEN NoUser ELSE token.user

\* req.user.id as authOptional leaves it.
authOptional(token) ==
    IF token = NoToken
    THEN NoUser
    ELSE IF Verifies(token) THEN token.user ELSE NoUser

(***************************************************************************)
(* Text.  Where the code looks into a string (LIKE, toUpperCase) the       *)
(* string is the sequence of its characters.                               *)
(***************************************************************************)
Lowercase == <<"a", "c", "d", "e", "i", "j", "k", "n", "o", "p",
               "r", "s", "t", "u", "v", "w", "x", "y", "z">>
Uppercase == <<"A", "C", "D", "E", "I", "J", "K", "N", "O", "P",
               "R", "S", "T", "U", "V", "W", "X", "Y", "Z">>

UpperOf ==
    [ch \in {Lowercase[i] : i \in DOMAIN Lowercase} |->
        Uppercase[CHOOSE i \in DOMAIN Lowercase : Lowercase[i] = ch]]

ToUpper(ch) == IF ch \in DOMAIN UpperOf THEN UpperOf[ch] ELSE ch

\* String.prototype.toUpperCase
toUpperCase(w) == [i \in DOMAIN w |-> ToUpper(w[i])]

\* The characters of the catalog's column values.
Spell(str) ==
    CASE str = "Intro" -> <<"I", "n", "t", "r", "o">>
      [] str = "Outro" -> <<"O", "u", "t", "r", "o">>
      [] str = "Coda" -> <<"C", "o", "d", "a">>
      [] str = "rock" -> <<"r", "o", "c", "k">>
      [] str = "pop" -> <<"p", "o", "p">>
      [] str = "jazz" -> <<"j", "a", "z", "z">>
      [] OTHER -> <<str>>

\* column LIKE '%value%' under the store's case-insensitive collation, for
\* a value without the wildcards % and _.
Like(str, value) ==
    LET w == Spell(str)
    IN \E k \in 0..(Len(w) - Len(value)) :
          \A i \in DOMAIN value : ToUpper(w[k + i]) = ToUpper(value[i])

(***************************************************************************)
(* GET /search: authOptional, then one query built from the parameters.    *)
(***************************************************************************)
\* The dimension tables hold the rows the songs refer to.
Artist == {[artistName |-> s.artistName] : s \in Song}
Album == {[albumTitle |-> s.albumTitle, artistName |-> s.artistName] : s \in Song}
Genre == {[genreName |-> c.genreName] : c \in Classification}

\* req.query; an absent parameter is the empty string.
Query(title, artist, album, genre, sortOrder, liked) ==
    [songTitle |-> title, artistName |-> artist, albumTitle |-> album,
     genreName |-> genre, sortOrder |-> sortOrder, liked |-> liked]

Queries ==
    {Query(title, artist, album, genre, sortOrder, liked) :
        title \in {<<>>, <<"i", "n">>},
        artist \in {<<>>, <<"z">>},
        album \in {<<>>, <<"y">>},
        genre \in {<<>>, <<"P", "O">>},
        sortOrder \in {<<>>, <<"A", "S", "C">>, <<"a", "s", "c">>,
                       <<"D", "E", "S", "C">>, <<"u", "p">>},
        liked \in {"", "true", "false"}}

\* !req.user || !req.user.id, never.
Anonymous_never(user) == FALSE

\* !req.user || !req.user.id
Anonymous(user) == user = NoUser

\* AND Song.songTitle IN (SELECT songTitle FROM UserLike WHERE username = ?)
LikedFilter(user, s) ==
    s.songTitle \in {ul.songTitle :
                        ul \in Select(UserLike, LAMBDA row : row.username = user)}

\* FROM Song JOIN Artist ON ... JOIN Album ON ... JOIN Classification ON ...
\* JOIN Genre ON ... WHERE 1=1 and the filters the parameters ask for: the
\* rows <<Song, Artist, Album, Classification, Genre>> of the join.
SearchJoin(q, user) ==
    LET artists == {a \in Artist :
                       q.artistName # <<>> => Like(a.artistName, q.artistName)}
        albums == {al \in Album :
                      q.albumTitle # <<>> => Like(al.albumTitle, q.albumTitle)}
        genres == {g \in Genre :
                      q.genreName # <<>> => Like(g.genreName, q.genreName)}
        songs == {s \in Song :
                     /\ q.songTitle # <<>> => Like(s.songTitle, q.songTitle)
                     /\ q.liked = "true" => LikedFilter(user, s)}
    IN UNION {UNION {{<<s, a, al, c, g>> :
                         a \in {a \in artists : s.artistName = a.artistName},
                         al \in {al \in albums : /\ s.albumTitle = al.albumTitle
                                                 /\ s.artistName = al.artistName},
                         g \in {g \in genres : c.genreName = g.genreName}} :
                     c \in {c \in Classification : SongOf(c) = s}} :
                 s \in songs}

SearchRow(x) ==
    [songTitle |-> x[1].songTitle, artistName |-> x[2].artistName,
     albumTitle |-> x[3].albumTitle, genreName |-> x[5].genreName,
     plays |-> Plays(x[1])]

\* The direction with sortOrder compared as it was sent.
Ascending_exact(sortOrder) == sortOrder = <<"A", "S", "C">>

\* sortOrder && sortOrder.toUpperCase() === 'ASC'
Ascending(sortOrder) ==
    sortOrder # <<>> /\ toUpperCase(sortOrder) = <<"A", "S", "C">>

\* The response, kept with the token and the parameters it answers.
Refused(token, q, status, message) ==
    [pc |-> "done", route |-> "GET /search", user |-> NoUser, name |-> "-",
     song |-> NoSong, status |-> status, message |-> message,
     token |-> token, query |-> q]
Found(token, q, user, body) ==
    [pc |-> "done", route |-> "GET /search", user |-> user, name |-> "-",
     song |-> NoSong, status |-> 200, message |-> "-", body |-> body,
     token |-> token, query |-> q]

\* What the handler can answer: ORDER BY Song.plays leaves the order of
\* songs with equal plays open.
Search(token, q) ==
    LET user == authOptional(token)
    IN IF q.liked = "true" /\ Anonymous(user)
       THEN {Refused(token, q, 401, "Authentication required to filter liked songs.")}
       ELSE {Found(token, q, user, [i \in DOMAIN rows |-> SearchRow(rows[i])]) :
                rows \in OrderBy(SearchJoin(q, user),
                                 LAMBDA x, y : IF Ascending(q.sortOrder)
                                               THEN Plays(x[1]) < Plays(y[1])
                                               ELSE Plays(x[1]) > Plays(y[1]))}

\* The request is the first on its connection: the route leaves nothing
\* behind but the response, so a later request has no more to show.
GetSearch(r, token, q) ==
    /\ At(r, "idle")
    /\ \E res \in Search(token, q) : req' = [req EXCEPT ![r] = res]
    /\ UNCHANGED <<tables, page>>

(***************************************************************************)
(* POST /register                                                          *)
(***************************************************************************)
\* What a client may send as a password, an email, a username.
Passwords == Users
PasswordInputs == Passwords \cup {""}
EmailInputs == Users \cup {""}
UsernameInputs == Users \cup {""}

\* The handler holds username, email and password while it awaits.
Registering(pc, username, email, password) ==
    [pc |-> pc, route |-> "POST /register", user |-> username, name |-> "-",
     song |-> NoSong, status |-> 0, message |-> "-",
     email |-> email, password |-> password]

\* SELECT username FROM User WHERE username = ?
ExistingUsername(username) ==
    Select(User, LAMBDA row : row.username = username) # {}

\* SELECT email FROM User WHERE email = ?
ExistingEmail(email) ==
    Select(User, LAMBDA row : row.email = email) # {}

\* User without its unique email.
UserAccepts_noEmailKey(row) ==
    \A other \in Rows(User) : other.username # row.username

\* username is the primary key of User and email is unique.
UserAccepts(row) ==
    \A other \in Rows(User) : /\ other.username # row.username
                              /\ other.email # row.email

UsernameTaken == "Username already taken. Please choose another one."
EmailRegistered == "Email already registered. Please use a different email."

\* Arrival, input validation and the existingUsername query.
PostRegister(r, username, email, password) ==
    /\ Free(r)
    /\ IF username = "" \/ email = "" \/ password = ""
       THEN Answer(r, "POST /register", 400,
                   "Please provide username, email, and password.")
       ELSE IF ExistingUsername(username)
            THEN Answer(r, "POST /register", 400, UsernameTaken)
            ELSE req' = [req EXCEPT ![r] =
                            Registering("register_existingEmail",
                                        username, email, password)]
    /\ UNCHANGED <<tables, page>>

\* The existingEmail query.
PostRegister_existingEmail(r) ==
    /\ At(r, "register_existingEmail")
    /\ IF ExistingEmail(req[r].email)
       THEN Respond(r, 400, EmailRegistered)
       ELSE Goto(r, "register_insert")
    /\ UNCHANGED <<tables, page>>

\* bcrypt.hash with a fresh salt, then INSERT INTO User; a rejected insert
\* is caught.
PostRegister_insert(r) ==
    /\ At(r, "register_insert")
    /\ \E salt \in Salts :
          LET row == NewUserRow(req[r].user, req[r].email,
                                Hash(req[r].password, salt))
          IN IF UserAccepts(row)
             THEN /\ User' = InsertRow(User, row)
                  /\ Respond(r, 201,
                             "User registered successfully. You can now log in.")
             ELSE /\ User' = User
                  /\ Respond(r, 500,
                             "Server error during registration. Please try again later.")
    /\ UNCHANGED <<catalog, page, Playlist, Inclusion, UserLike>>

(***************************************************************************)
(* POST /login                                                             *)
(***************************************************************************)
\* An address nobody registers with.
UnknownEmail == "carol"
LoginEmails == EmailInputs \cup {UnknownEmail}

\* The message of the answer to an email that is not registered, were it
\* one of its own.
NoSuchEmail_distinct == "No account uses this email."
\* l.197 and l.206
NoSuchEmail == "Invalid email or password."
WrongPassword == "Invalid email or password."

\* The answer to a login that succeeds: the signed token, the user's public
\* fields and the message.
LoggedIn(user) ==
    [pc |-> "done", route |-> "POST /login", user |-> user.username,
     name |-> "-", song |-> NoSong, status |-> 200,
     message |-> "Login successful.",
     token |-> Token("signed", user.username),
     body |-> [username |-> user.username, email |-> user.email]]

\* SELECT * FROM User WHERE email = ?
UsersByEmail(email) == Select(User, LAMBDA row : row.email = email)

\* The answers the handler can give: users[0] is any of the rows found.
Login(email, password) ==
    IF email = "" \/ password = ""
    THEN {Response("POST /login", 400, "Please provide email and password.")}
    ELSE IF UsersByEmail(email) = {}
         THEN {Response("POST /login", 400, NoSuchEmail)}
         ELSE {IF Compare(password, user.password)
               THEN LoggedIn(user)
               ELSE Response("POST /login", 400, WrongPassword)
               : user \in UsersByEmail(email)}

\* The one query and bcrypt.compare on the row it returned.
PostLogin(r, email, password) ==
    /\ Free(r)
    /\ \E res \in Login(email, password) : req' = [req EXCEPT ![r] = res]
    /\ UNCHANGED <<tables, page>>

(***************************************************************************)
(* GET /profile, PUT /profile/bio, PUT /profile/password                   *)
(***************************************************************************)
\* SELECT username, email, bio FROM User WHERE username = ?  (bio is a
\* column no handler decides on, and the rows here are without it).
GetProfile(r, u) ==
    /\ Free(r)
    /\ LET users == Select(User, LAMBDA row : row.username = u)
       IN IF users = {}
          THEN Answer(r, "GET /profile", 404, "User not found.")
          ELSE \E user \in users :
                  req' = [req EXCEPT ![r] =
                             Reply("GET /profile", u, 200,
                                   [username |-> user.username,
                                    email |-> user.email])]
    /\ UNCHANGED <<tables, page>>

\* UPDATE User SET bio = ? WHERE username = ?
PutProfileBio(r, u) ==
    /\ Free(r)
    /\ Answer(r, "PUT /profile/bio", 200, "Bio updated successfully.")
    /\ UNCHANGED <<tables, page>>

\* The handler holds the new password while it awaits the update.
ChangingPassword(pc, u, newPassword) ==
    [pc |-> pc, route |-> "PUT /profile/password", user |-> u, name |-> "-",
     song |-> NoSong, status |-> 0, message |-> "-",
     password |-> newPassword]

\* Arrival, input validation, the password query and bcrypt.compare on the
\* row it returned.
PutProfilePassword(r, u, currentPassword, newPassword, confirmNewPassword) ==
    /\ Free(r)
    /\ IF currentPassword = "" \/ newPassword = "" \/ confirmNewPassword = ""
       THEN Answer(r, "PUT /profile/password", 400,
                   "Please provide all required fields.")
       ELSE IF newPassword # confirmNewPassword
       THEN Answer(r, "PUT /profile/password", 400,
                   "New passwords do not match.")
       ELSE LET users == Select(User, LAMBDA row : row.username = u)
            IN IF users = {}
               THEN Answer(r, "PUT /profile/password", 404, "User not found.")
               ELSE \E user \in users :
                       IF Compare(currentPassword, user.password)
                       THEN req' = [req EXCEPT ![r] =
                                       ChangingPassword("password_update", u,
                                                        newPassword)]
                       ELSE Answer(r, "PUT /profile/password", 400,
                                   "Current password is incorrect.")
    /\ UNCHANGED <<tables, page>>

\* The statement without its WHERE clause.
UpdatePassword_all(T, u, hashed) ==
    SetToBag({[row EXCEPT !.password = hashed] : row \in Rows(T)})

\* UPDATE User SET password = ? WHERE username = ?
UpdatePassword(T, u, hashed) ==
    LET Set(row) == IF row.username = u
                    THEN [row EXCEPT !.password = hashed]
                    ELSE row
    IN [x \in {Set(row) : row \in Rows(T)} |->
          BagCardinality([row \in {y \in Rows(T) : Set(y) = x} |-> T[row]])]

\* bcrypt.hash with a fresh salt, then the update.
PutProfilePassword_update(r) ==
    /\ At(r, "password_update")
    /\ \E salt \in Salts :
          User' = UpdatePassword(User, req[r].user, Hash(req[r].password, salt))
    /\ Respond(r, 200,
               "Password updated successfully. Please log in with your new password.")
    /\ UNCHANGED <<catalog, page, Playlist, Inclusion, UserLike>>

(***************************************************************************)
(* GET /playlists, GET /playlists/:name/songs, GET /likes                  *)
(***************************************************************************)
\* SELECT name, creationDate FROM Playlist WHERE username = ?
GetPlaylists(r, u) ==
    /\ Free(r)
    /\ req' = [req EXCEPT ![r] =
                  Reply("GET /playlists", u, 200,
                        {row.name : row \in Select(Playlist,
                                         LAMBDA row : row.username = u)})]
    /\ UNCHANGED <<tables, page>>

\* Arrival and the playlist query.
GetOwnPlaylistSongs(r, u, n) ==
    /\ Free(r)
    /\ IF OwnsPlaylist(u, n)
       THEN Await(r, "songs_select", "GET /playlists/:name/songs", u, n, NoSong)
       ELSE Answer(r, "GET /playlists/:name/songs", 404, "Playlist not found.")
    /\ UNCHANGED <<tables, page>>

\* Inclusion JOIN Song on the triple, of the playlist.
GetOwnPlaylistSongs_select(r) ==
    /\ At(r, "songs_select")
    /\ req' = [req EXCEPT ![r] =
                  Reply(req[r].route, req[r].user, 200,
                        {x \in Song :
                           Select(Inclusion,
                                  LAMBDA row : /\ row.name = req[r].name
                                               /\ row.username = req[r].user
                                               /\ SongOf(row) = x) # {}})]
    /\ UNCHANGED <<tables, page>>

\* UserLike JOIN Song on the triple, of the user.
GetLikes(r, u) ==
    /\ Free(r)
    /\ req' = [req EXCEPT ![r] =
                  Reply("GET /likes", u, 200,
                        {x \in Song :
                           Select(UserLike,
                                  LAMBDA row : /\ row.username = u
                                               /\ SongOf(row) = x) # {}})]
    /\ UNCHANGED <<tables, page>>

(***************************************************************************)
(* The authentication gate.  server/middleware/auth.js is not among the    *)
(* sources; from the specification, a missing, invalid or expired          *)
(* credential is refused with 401 and processing stops, and otherwise the  *)
(* handler runs with req.user the user the credential was signed for.      *)
(***************************************************************************)
\* A gate that does not look at the expiry of a signed credential.
auth_expiredPasses(token) ==
    IF token.kind \in {"signed", "expired"} THEN token.user ELSE NoUser

auth(token) == IF Verifies(token) THEN token.user ELSE NoUser

NotAuthorized == "Unauthorized"

\* router.<method>(path, auth, handler)
ProtectedRoutes ==
    {"GET /profile", "PUT /profile/bio", "PUT /profile/password",
     "DELETE /profile", "POST /playlists", "GET /playlists",
     "DELETE /playlists/:name", "POST /playlists/:name/songs",
     "DELETE /playlists/:name/songs", "GET /playlists/:name/songs",
     "GET /recommendations", "GET /likes", "POST /likes", "DELETE /likes"}

\* The handler of a protected route up to its first awaited statement, for
\* req.user.id = u and any parameters and body.
Handler(r, route, u) ==
    CASE route = "GET /profile" -> GetProfile(r, u)
      [] route = "PUT /profile/bio" -> PutProfileBio(r, u)
      [] route = "PUT /profile/password" ->
            \E currentPassword, newPassword, confirmNewPassword \in PasswordInputs :
               PutProfilePassword(r, u, currentPassword, newPassword,
                                  confirmNewPassword)
      [] route = "DELETE /profile" -> DeleteProfile(r, u)
      [] route = "POST /playlists" ->
            \E n \in NameInputs : PostPlaylists(r, u, n)
      [] route = "GET /playlists" -> GetPlaylists(r, u)
      [] route = "DELETE /playlists/:name" ->
            \E n \in PlaylistNames : DeletePlaylist(r, u, n)
      [] route = "POST /playlists/:name/songs" ->
            \E n \in PlaylistNames, s \in SongInputs :
               PostPlaylistSongs(r, u, n, s)
      [] route = "DELETE /playlists/:name/songs" ->
            \E n \in PlaylistNames, s \in SongInputs :
               DeletePlaylistSongs(r, u, n, s)
      [] route = "GET /playlists/:name/songs" ->
            \E n \in PlaylistNames : GetOwnPlaylistSongs(r, u, n)
      [] route = "GET /recommendations" -> GetRecommendations(r, u)
      [] route = "GET /likes" -> GetLikes(r, u)
      [] route = "POST /likes" -> \E s \in SongInputs : PostLikes(r, u, s)
      [] route = "DELETE /likes" -> \E s \in SongInputs : DeleteLikes(r, u, s)

\* A request to a protected route: auth first, and the handler only if it
\* calls next().
Protected(r, route, token) ==
    IF auth(token) = NoUser
    THEN /\ Free(r)
         /\ Answer(r, route, 401, NotAuthorized)
         /\ UNCHANGED <<tables, page>>
    ELSE Handler(r, route, auth(token))

\* The statements a handler that got past the gate goes on to.
Continue(r) ==
    \/ PutProfilePassword_update(r)
    \/ PostPlaylists_insert(r)
    \/ DeletePlaylist_delete(r)
    \/ PostPlaylistSongs_song(r)
    \/ PostPlaylistSongs_existingInclusion(r)
    \/ PostPlaylistSongs_insert(r)
    \/ DeletePlaylistSongs_inclusion(r)
    \/ DeletePlaylistSongs_delete(r)
    \/ GetOwnPlaylistSongs_select(r)
    \/ PostLikes_alreadyLiked(r)
    \/ PostLikes_insert(r)
    \/ DeleteLikes_delete(r)

(***************************************************************************)
(* GET /top-charts, GET /top-charts/:name/dates and                        *)
(* GET /top-charts/:name/:date/songs.  Dates are day numbers.              *)
(***************************************************************************)
ChartNames == {"Hot", "New"}
ChartDates == {1, 2}
TopChartRow(name, date) == [chartName |-> name, chartDate |-> date]
ChartEntryRow(name, date, s) ==
    [chartName |-> name, chartDate |-> date, songTitle |-> s.songTitle,
     artistName |-> s.artistName, albumTitle |-> s.albumTitle]

\* What stays of a chart request: the parameters it came with and the
\* answer, a message or rows.
ChartAnswer(route, name, date, status, message, body) ==
    [pc |-> "done", route |-> route, user |-> "-", name |-> name,
     song |-> NoSong, status |-> status, message |-> message,
     date |-> date, body |-> body]

\* The handler of the songs of a chart awaits its second query.
ChartAwaiting(pc, route, name, date) ==
    [pc |-> pc, route |-> route, user |-> "-", name |-> name,
     song |-> NoSong, status |-> 0, message |-> "-", date |-> date]

\* SELECT DISTINCT chartName FROM TopChart
GetTopCharts(r) ==
    /\ Free(r)
    /\ req' = [req EXCEPT ![r] =
                  ChartAnswer("GET /top-charts", "-", 0, 200, "-",
                              {row.chartName : row \in TopChart})]
    /\ UNCHANGED <<tables, page>>

\* SELECT chartDate FROM TopChart WHERE chartName = ? ORDER BY chartDate DESC
GetTopChartDates(r, name) ==
    /\ Free(r)
    /\ LET dates == {row.chartDate : row \in {x \in TopChart : x.chartName = name}}
       IN IF dates = {}
          THEN req' = [req EXCEPT ![r] =
                          ChartAnswer("GET /top-charts/:name/dates", name, 0, 404,
                                      "Top chart not found or no dates available.",
                                      <<>>)]
          ELSE \E body \in OrderBy(dates, LAMBDA x, y : x > y) :
                  req' = [req EXCEPT ![r] =
                             ChartAnswer("GET /top-charts/:name/dates", name, 0,
                                         200, "-", body)]
    /\ UNCHANGED <<tables, page>>

\* The songs handler without its first query's test.
TopChartRows_any(name, date) == {TopChartRow(name, date)}

\* SELECT * FROM TopChart WHERE chartName = ? AND chartDate = ?
TopChartRows(name, date) ==
    {row \in TopChart : row.chartName = name /\ row.chartDate = date}

\* Arrival and the topChartRows query.
GetTopChartSongs(r, name, date) ==
    /\ Free(r)
    /\ IF TopChartRows(name, date) = {}
       THEN req' = [req EXCEPT ![r] =
                       ChartAnswer("GET /top-charts/:name/:date/songs", name,
                                   date, 404,
                                   "Top chart not found for the specified name and date.",
                                   <<>>)]
       ELSE req' = [req EXCEPT ![r] =
                       ChartAwaiting("chart_songs",
                                     "GET /top-charts/:name/:date/songs",
                                     name, date)]
    /\ UNCHANGED <<tables, page>>

\* ChartEntry JOIN Song on the triple, of the chart and date, ORDER BY
\* Song.plays DESC.
ChartSongs(name, date) ==
    {x \in Song : \E row \in ChartEntry : /\ row.chartName = name
                                          /\ row.chartDate = date
                                          /\ SongOf(row) = x}

GetTopChartSongs_songs(r) ==
    /\ At(r, "chart_songs")
    /\ \E body \in OrderBy(ChartSongs(req[r].name, req[r].date),
                            LAMBDA x, y : Plays(x) > Plays(y)) :
          req' = [req EXCEPT ![r] =
                     ChartAnswer(req[r].route, req[r].name, req[r].date, 200,
                                 "-", body)]
    /\ UNCHANGED <<tables, page>>

(***************************************************************************)
(* Store failures.  Every statement of every handler is awaited inside the *)
(* handler's try block, and the catch block answers 500 with the route's   *)
(* message.                                                                *)
(***************************************************************************)
WriteRoutes ==
    {"DELETE /profile", "POST /playlists", "DELETE /playlists/:name",
     "POST /playlists/:name/songs", "DELETE /playlists/:name/songs",
     "POST /likes", "DELETE /likes"}

ServerError(route) ==
    CASE route = "DELETE /profile" ->
           "Server error while deleting account. Please try again later."
      [] route = "POST /playlists" ->
           "Server error while creating playlist. Please try again later."
      [] route = "DELETE /playlists/:name" ->
           "Server error while deleting playlist. Please try again later."
      [] route = "POST /playlists/:name/songs" ->
           "Server error while adding song to playlist. Please try again later."
      [] route = "DELETE /playlists/:name/songs" ->
           "Server error while removing song from playlist. Please try again later."
      [] route = "POST /likes" ->
           "Server error while liking song. Please try again later."
      [] route = "DELETE /likes" ->
           "Server error while unliking song. Please try again later."

\* A catch block that answers as if the statement had succeeded.
Caught_ignored(route) == Response(route, 200, "-")

\* console.error(...); res.status(500).json({ message })
Caught(route) == Response(route, 500, ServerError(route))

\* The first statement of a handler is rejected by the store (the request
\* is one that passes the input validation).
FirstQueryFails(r, route) ==
    /\ Free(r)
    /\ req' = [req EXCEPT ![r] = Caught(route)]
    /\ UNCHANGED <<tables, page>>

\* The statement a handler awaits is rejected by the store.
QueryFails(r) ==
    /\ ~Free(r)
    /\ req' = [req EXCEPT ![r] = Caught(req[r].route)]
    /\ UNCHANGED <<tables, page>>

(***************************************************************************)
(* The Top Charts page (client/src/pages/TopCharts.js).  The page is its   *)
(* React state and the requests it has sent and not yet seen answered,     *)
(* one per connection; an answer is handled when it arrives, in whatever   *)
(* order the answers come.                                                 *)
(***************************************************************************)
\* A DATE column as JSON carries it, and date.split('T')[0].
JsonDate(date) == <<date, "T", "00:00:00.000Z">>
SplitT(json) == json[1]
NoDate == <<>>

NoFetch == [kind |-> "none", chart |-> "", date |-> NoDate]
Fetching(kind, chart, date) == [kind |-> kind, chart |-> chart, date |-> date]

\* The state after the first render: useEffect has called fetchTopCharts.
TopChartsMounted ==
    [name |-> "TopCharts",
     topCharts |-> {}, selectedChart |-> "", availableDates |-> <<>>,
     selectedDate |-> NoDate, songs |-> <<>>,
     loadingCharts |-> TRUE, loadingDates |-> FALSE, loadingSongs |-> FALSE,
     error |-> NoFetch,
     fetch |-> [r \in Reqs |-> IF r = "r1" THEN Fetching("charts", "", NoDate)
                                         ELSE NoFetch]]

\* A connection the page can send its next request on.
Idling(r) == page.fetch[r] = NoFetch /\ At(r, "idle")

\* handleChartChange: the select offers "" and the names of topCharts, and
\* is rendered when loadingCharts is off.
handleChartChange(chartName) ==
    /\ ~page.loadingCharts
    /\ chartName \in page.topCharts \cup {""}
    /\ chartName # page.selectedChart
    /\ IF chartName # ""
       THEN \E r \in Reqs :
               /\ Idling(r)
               /\ page' = [page EXCEPT !.selectedChart = chartName,
                                       !.selectedDate = NoDate,
                                       !.songs = <<>>,
                                       !.loadingDates = TRUE,
                                       !.error = NoFetch,
                                       !.fetch[r] = Fetching("dates", chartName,
                                                             NoDate)]
       ELSE page' = [page EXCEPT !.selectedChart = chartName,
                                 !.selectedDate = NoDate,
                                 !.songs = <<>>,
                                 !.availableDates = <<>>]
    /\ UNCHANGED <<tables, req>>

\* handleDateChange: the select offers "" and the dates of availableDates,
\* and is rendered when a chart is selected and loadingDates is off.
handleDateChange(date) ==
    /\ page.selectedChart # ""
    /\ ~page.loadingDates
    /\ date \in {page.availableDates[i] : i \in DOMAIN page.availableDates}
                 \cup {NoDate}
    /\ date # page.selectedDate
    /\ IF date # NoDate
       THEN \E r \in Reqs :
               /\ Idling(r)
               /\ page' = [page EXCEPT !.selectedDate = date,
                                       !.songs = <<>>,
                                       !.loadingSongs = TRUE,
                                       !.error = NoFetch,
                                       !.fetch[r] = Fetching("songs",
                                                             page.selectedChart,
                                                             date)]
       ELSE page' = [page EXCEPT !.selectedDate = date, !.songs = <<>>]
    /\ UNCHANGED <<tables, req>>

\* The request sent on connection r reaches its handler.
TopChartsServed(r) ==
    /\ page.fetch[r] # NoFetch
    /\ At(r, "idle")
    /\ LET f == page.fetch[r]
       IN CASE f.kind = "charts" -> GetTopCharts(r)
            [] f.kind = "dates" -> GetTopChartDates(r, f.chart)
            [] f.kind = "songs" -> GetTopChartSongs(r, f.chart, SplitT(f.date))

\* What the page sets when the request on r is over: the state of the
\* request's kind when it succeeded, the error when it did not (the message
\* names the request that failed; no error is NoFetch), and in the finally
\* block the loading flag of the kind.
Settled(r, ok, data) ==
    LET f == page.fetch[r]
        said == IF ok THEN page.error ELSE f
    IN CASE f.kind = "charts" ->
               [page EXCEPT !.topCharts = IF ok THEN data ELSE @,
                            !.error = said,
                            !.loadingCharts = FALSE,
                            !.fetch[r] = NoFetch]
         [] f.kind = "dates" ->
               [page EXCEPT !.availableDates =
                                IF ok THEN [i \in DOMAIN data |-> JsonDate(data[i])]
                                      ELSE @,
                            !.error = said,
                            !.loadingDates = FALSE,
                            !.fetch[r] = NoFetch]
         [] f.kind = "songs" ->
               [page EXCEPT !.songs = IF ok THEN data ELSE @,
                            !.error = said,
                            !.loadingSongs = FALSE,
                            !.fetch[r] = NoFetch]

\* The answer arrives: axios resolves on 2xx and rejects otherwise.
TopChartsAnswered(r) ==
    /\ page.fetch[r] # NoFetch
    /\ At(r, "done")
    /\ page' = Settled(r, req[r].status = 200, req[r].body)
    /\ req' = [req EXCEPT ![r] = Idle]
    /\ UNCHANGED tables

\* The request is lost on the way: axios rejects.
TopChartsFetchFails(r) ==
    /\ page.fetch[r] # NoFetch
    /\ At(r, "idle")
    /\ page' = Settled(r, FALSE, <<>>)
    /\ UNCHANGED <<tables, req>>

(***************************************************************************)
(* The public Playlists page (client/src/pages/Playlists.js).  The page is *)
(* its React state and the calls of fetchAllPlaylists and toggleExpand     *)
(* that are waiting for an answer, one per connection.  The routes it      *)
(* calls only read, so an answer is what the handler finds when it runs.   *)
(***************************************************************************)
\* The names the page's playlists and their creators carry.
PageNames == {"a", "ab"}
PageUsernames == {"b", "bb"}
PagePlaylists == {PlaylistRow("a", "b"), PlaylistRow("a", "bb"),
                  PlaylistRow("ab", "b")}

\* playlist.name + playlist.username, the property of songs a playlist's
\* songs are stored and looked up under.
SongsKey(playlist) == playlist.name \o playlist.username

NoPlaylist == [name |-> "", username |-> ""]
NoCall == [at |-> "none", playlist |-> NoPlaylist, bio |-> FALSE]
Calling(at, playlist, bio) == [at |-> at, playlist |-> playlist, bio |-> bio]

\* The state after the first render: useEffect has called fetchAllPlaylists.
\* songs is an object, here a function of the keys set so far; bios is kept
\* as the usernames whose bio has been stored.
PlaylistsMounted ==
    [name |-> "Playlists",
     playlists |-> {}, expandedPlaylist |-> NoPlaylist,
     songs |-> [key \in {} |-> {}], bios |-> {},
     message |-> NoCall,
     call |-> [r \in Reqs |-> IF r = "r1" THEN Calling("all", NoPlaylist, FALSE)
                                        ELSE NoCall]]

\* setSongs((prevSongs) => ({...prevSongs, [key]: data}))
SetSongs(songs, key, data) ==
    [k \in DOMAIN songs \cup {key} |-> IF k = key THEN data ELSE songs[k]]

\* fetchAllPlaylists is answered, or fails.
PlaylistsAnswered(r) ==
    /\ page.call[r].at = "all"
    /\ page' = [page EXCEPT !.playlists = GetPlaylistsAll.body,
                            !.call[r] = NoCall]
    /\ UNCHANGED <<tables, req>>
PlaylistsFetchFails(r) ==
    /\ page.call[r].at = "all"
    /\ page' = [page EXCEPT !.message = page.call[r], !.call[r] = NoCall]
    /\ UNCHANGED <<tables, req>>

\* toggleExpand up to its first await: the expanded playlist collapses when
\* clicked again; otherwise the clicked one is expanded, its songs are
\* requested when songs has nothing under its key, and its creator's bio
\* when the bios of this render have none (checked after the songs).
toggleExpand(playlist) ==
    /\ playlist \in page.playlists
    /\ IF page.expandedPlaylist = playlist
       THEN page' = [page EXCEPT !.expandedPlaylist = NoPlaylist]
       ELSE LET bio == playlist.username \notin page.bios
                at == IF SongsKey(playlist) \notin DOMAIN page.songs
                      THEN "songs" ELSE IF bio THEN "bio" ELSE "none"
            IN IF at = "none"
               THEN page' = [page EXCEPT !.expandedPlaylist = playlist]
               ELSE \E r \in Reqs :
                       /\ page.call[r] = NoCall
                       /\ page' = [page EXCEPT
                                     !.expandedPlaylist = playlist,
                                     !.call[r] = Calling(at, playlist, bio)]
    /\ UNCHANGED <<tables, req>>

\* Where toggleExpand goes on after the songs.
AfterSongs(call) ==
    IF call.bio THEN Calling("bio", call.playlist, TRUE) ELSE NoCall

\* GET /playlists/:username/:name/songs is answered: the songs go under the
\* key on 200, the message is set otherwise.
PlaylistSongsAnswered(r) ==
    /\ page.call[r].at = "songs"
    /\ LET call == page.call[r]
           res == GetPlaylistSongs(call.playlist.username, call.playlist.name)
       IN page' = IF res.status = 200
                  THEN [page EXCEPT
                          !.songs = SetSongs(@, SongsKey(call.playlist), res.body),
                          !.call[r] = AfterSongs(call)]
                  ELSE [page EXCEPT !.message = call,
                                    !.call[r] = AfterSongs(call)]
    /\ UNCHANGED <<tables, req>>
PlaylistSongsFetchFails(r) ==
    /\ page.call[r].at = "songs"
    /\ page' = [page EXCEPT !.message = page.call[r],
                            !.call[r] = AfterSongs(page.call[r])]
    /\ UNCHANGED <<tables, req>>

\* GET /users/:username/profile is answered, or fails.
BioAnswered(r) ==
    /\ page.call[r].at = "bio"
    /\ LET call == page.call[r]
       IN page' = IF Select(User, LAMBDA row :
                                     row.username = call.playlist.username) # {}
                  THEN [page EXCEPT !.bios = @ \cup {call.playlist.username},
                                    !.call[r] = NoCall]
                  ELSE [page EXCEPT !.message = call, !.call[r] = NoCall]
    /\ UNCHANGED <<tables, req>>
BioFetchFails(r) ==
    /\ page.call[r].at = "bio"
    /\ page' = [page EXCEPT !.message = page.call[r], !.call[r] = NoCall]
    /\ UNCHANGED <<tables, req>>

(***************************************************************************)
(* The Search page (client/src/pages/Search.js) of a logged-in user.  The  *)
(* page is its React state and the requests it has sent and not yet seen   *)
(* answered, one per connection.  results and likedSongs are kept as the   *)
(* (songTitle, artistName, albumTitle) triples of their entries, which is  *)
(* all that isSongLiked and the request bodies read of them.               *)
(***************************************************************************)
\* localStorage.getItem('token') and the user it was issued to.
PageUser == "alice"
PageToken == Token("signed", PageUser)

\* The form as it is first rendered, with the parameters that are '' or
\* false removed.
DefaultQuery == Query(<<>>, <<>>, <<>>, <<>>, <<"D", "E", "S", "C">>, "")

NoRequest == [kind |-> "none", song |-> NoSong]
Requesting(kind, song) == [kind |-> kind, song |-> song]

SearchMounted ==
    [name |-> "Search",
     results |-> {}, likedSongs |-> {}, loadingLikes |-> FALSE,
     message |-> "",
     fetch |-> [r \in Reqs |-> NoRequest]]

\* handleSubmit up to its await.
handleSubmit ==
    /\ page.name = "Search"
    /\ \E r \in Reqs :
          /\ page.fetch[r] = NoRequest
          /\ page' = [page EXCEPT !.message = "",
                                  !.results = {},
                                  !.likedSongs = {},
                                  !.fetch[r] = Requesting("search", NoSong)]
    /\ UNCHANGED <<tables, req>>

\* likedSongs.some(...) on the three fields.
isSongLiked(song) == song \in page.likedSongs

\* handleLikeToggle up to its await: the control is rendered for every
\* entry of results whenever there is a token.
handleLikeToggle(song) ==
    /\ page.name = "Search"
    /\ song \in page.results
    /\ \E r \in Reqs :
          /\ page.fetch[r] = NoRequest
          /\ page' = [page EXCEPT !.fetch[r] =
                         Requesting(IF isSongLiked(song) THEN "unlike" ELSE "like",
                                    song)]
    /\ UNCHANGED <<tables, req>>

\* The request sent on connection r reaches its handler; the token passes
\* auth.
SearchPageServed(r) ==
    /\ page.name = "Search"
    /\ page.fetch[r] # NoRequest
    /\ At(r, "idle")
    /\ LET f == page.fetch[r]
       IN CASE f.kind = "search" -> GetSearch(r, PageToken, DefaultQuery)
            [] f.kind = "likes" -> GetLikes(r, auth(PageToken))
            [] f.kind = "like" -> PostLikes(r, auth(PageToken), f.song)
            [] f.kind = "unlike" -> DeleteLikes(r, auth(PageToken), f.song)

\* What the page sets when the request on r is over.  After a search that
\* succeeded fetchLikedSongs is called, which sets loadingLikes and sends
\* GET /likes; the catch block of a toggle shows the server's message.
SearchSettled(r, ok, res) ==
    LET f == page.fetch[r]
    IN CASE f.kind = "search" ->
               IF ok
               THEN [page EXCEPT
                       !.results = {SongOf(res.body[i]) : i \in DOMAIN res.body},
                       !.loadingLikes = TRUE,
                       !.message = IF res.body = <<>> THEN "No results found."
                                                      ELSE @,
                       !.fetch[r] = Requesting("likes", NoSong)]
               ELSE [page EXCEPT
                       !.message = "An error occurred during search. Please try again.",
                       !.fetch[r] = NoRequest]
         [] f.kind = "likes" ->
               [page EXCEPT !.likedSongs = IF ok THEN res.body ELSE @,
                            !.loadingLikes = FALSE,
                            !.fetch[r] = NoRequest]
         [] f.kind = "like" ->
               [page EXCEPT !.likedSongs = IF ok THEN @ \cup {f.song} ELSE @,
                            !.message = IF ok THEN "Liked successfully."
                                              ELSE res.message,
                            !.fetch[r] = NoRequest]
         [] f.kind = "unlike" ->
               [page EXCEPT !.likedSongs = IF ok THEN @ \ {f.song} ELSE @,
                            !.message = IF ok THEN "Unliked successfully."
                                              ELSE res.message,
                            !.fetch[r] = NoRequest]

\* The answer arrives: axios resolves on 2xx and rejects otherwise.
SearchPageAnswered(r) ==
    /\ page.name = "Search"
    /\ page.fetch[r] # NoRequest
    /\ At(r, "done")
    /\ page' = SearchSettled(r, req[r].status \in {200, 201}, req[r])
    /\ req' = [req EXCEPT ![r] = Idle]
    /\ UNCHANGED tables

\* The request is lost on the way: axios rejects without a response.
SearchPageFetchFails(r) ==
    /\ page.name = "Search"
    /\ page.fetch[r] # NoRequest
    /\ At(r, "idle")
    /\ page' = SearchSettled(r, FALSE,
                             [message |-> "Failed to update like status. Please try again."])
    /\ UNCHANGED <<tables, req>>

(***************************************************************************)
(* The system.  The account table starts with every identity registered    *)
(* and the catalog loaded; the other tables start empty.                   *)
(***************************************************************************)
\* No client page is part of the system.
NoPage == [name |-> "-"]

InitWith(songs) ==
    /\ Song = songs
    /\ TopChart = {}
    /\ ChartEntry = {}
    /\ page = NoPage
    /\ User = SetToBag({UserRow(u) : u \in Users})
    /\ Playlist = EmptyBag
    /\ Inclusion = EmptyBag
    /\ UserLike = EmptyBag
    /\ req = [r \in Reqs |-> Idle]

Likes(r) ==
    \/ \E u \in Users, s \in SongInputs : PostLikes(r, u, s)
    \/ PostLikes_alreadyLiked(r)
    \/ PostLikes_insert(r)
    \/ \E u \in Users, s \in SongInputs : DeleteLikes(r, u, s)
    \/ DeleteLikes_delete(r)

Playlists(r) ==
    \/ \E u \in Users, n \in NameInputs : PostPlaylists(r, u, n)
    \/ PostPlaylists_insert(r)
    \/ \E u \in Users, n \in PlaylistNames : DeletePlaylist(r, u, n)
    \/ DeletePlaylist_delete(r)
    \/ \E u \in Users, n \in PlaylistNames, s \in SongInputs :
          PostPlaylistSongs(r, u, n, s)
    \/ PostPlaylistSongs_song(r)
    \/ PostPlaylistSongs_existingInclusion(r)
    \/ PostPlaylistSongs_insert(r)
    \/ \E u \in Users, n \in PlaylistNames, s \in SongInputs :
          DeletePlaylistSongs(r, u, n, s)
    \/ DeletePlaylistSongs_inclusion(r)
    \/ DeletePlaylistSongs_delete(r)

Profile(r) == \E u \in Users : DeleteProfile(r, u)

\* Every route, over a catalog of one song.
Init == InitWith({Catalog[1]})
Next == \E r \in Reqs : Likes(r) \/ Playlists(r) \/ Profile(r)
Spec == Init /\ [][Next]_vars

\* The routes that read or write UserLike, over a catalog of NumSongs songs.
\* No other route reads or writes UserLike, and these read no other table
\* but Song and (through the foreign key) User.
InitLikes == InitWith(CatalogOf(NumSongs))
NextLikes == \E r \in Reqs : Likes(r) \/ Profile(r)
SpecLikes == InitLikes /\ [][NextLikes]_vars

\* The routes that read or write Playlist and Inclusion, over a catalog of
\* NumSongs songs.
InitPlaylists == InitWith(CatalogOf(NumSongs))
NextPlaylists == \E r \in Reqs : Playlists(r) \/ Profile(r)
SpecPlaylists == InitPlaylists /\ [][NextPlaylists]_vars

\* How many songs a user likes when a query runs.
MaxLikes == 2

\* GET /recommendations over the whole catalog, from every table of likes
\* the like routes can leave with at most MaxLikes likes per user: the route
\* is one query, so its answer is a function of the tables when it runs.
LikeTables ==
    {SetToBag(rows) :
        rows \in {x \in SUBSET {UserLikeRow(u, Catalog[i]) :
                                   u \in Users, i \in DOMAIN Catalog} :
                    \A u \in Users :
                       Cardinality({row \in x : row.username = u}) <= MaxLikes}}

InitQueries ==
    /\ Song = {Catalog[i] : i \in DOMAIN Catalog}
    /\ TopChart = {}
    /\ ChartEntry = {}
    /\ page = NoPage
    /\ User = SetToBag({UserRow(u) : u \in Users})
    /\ Playlist = EmptyBag
    /\ Inclusion = EmptyBag
    /\ UserLike \in LikeTables
    /\ req = [r \in Reqs |-> Idle]

NextQueries == \E r \in Reqs, u \in Users : GetRecommendations(r, u)
SpecQueries == InitQueries /\ [][NextQueries]_vars

\* GET /search over a catalog of NumSongs songs, from every table of likes.
\* The route is one query and no two of its requests interleave, so one
\* connection shows everything it does.
SearchReqs == {"r1"}
SearchLikeTables ==
    {SetToBag(rows) :
        rows \in {x \in SUBSET {UserLikeRow(u, s) : u \in Users, s \in CatalogOf(NumSongs)} :
                    \A u \in Users :
                       Cardinality({row \in x : row.username = u}) <= MaxLikes}}

InitSearch ==
    /\ Song = CatalogOf(NumSongs)
    /\ TopChart = {}
    /\ ChartEntry = {}
    /\ page = NoPage
    /\ User = SetToBag({UserRow(u) : u \in Users})
    /\ Playlist = EmptyBag
    /\ Inclusion = EmptyBag
    /\ UserLike \in SearchLikeTables
    /\ req = [r \in Reqs |-> Idle]

NextSearch == \E r \in SearchReqs, token \in Credentials, q \in Queries : GetSearch(r, token, q)
SpecSearch == InitSearch /\ [][NextSearch]_vars

\* Registration, login and account deletion.  Only alice is registered at
\* the start, so that a username and an email are free to register with.
InitAccounts ==
    /\ Song = {Catalog[1]}
    /\ TopChart = {}
    /\ ChartEntry = {}
    /\ page = NoPage
    /\ User = SetToBag({UserRow("alice")})
    /\ Playlist = EmptyBag
    /\ Inclusion = EmptyBag
    /\ UserLike = EmptyBag
    /\ req = [r \in Reqs |-> Idle]
Register(r) ==
    \/ \E username \in UsernameInputs, email \in EmailInputs,
          password \in PasswordInputs :
          PostRegister(r, username, email, password)
    \/ PostRegister_existingEmail(r)
    \/ PostRegister_insert(r)
NextAccounts ==
    \E r \in Reqs :
        \/ Register(r)
        \/ \E email \in LoginEmails, password \in PasswordInputs :
              PostLogin(r, email, password)
        \/ Profile(r)
SpecAccounts == InitAccounts /\ [][NextAccounts]_vars

\* Every protected route behind its gate, called with every credential,
\* over a catalog of one song.  What the gate does with a request depends on
\* no other request, and the requests come one after the other.
GateReqs == {"r1"}
InitGate == InitWith({Catalog[1]})
NextGate ==
    \E r \in GateReqs :
        \/ \E route \in ProtectedRoutes, token \in Credentials :
              Protected(r, route, token)
        \/ Continue(r)
SpecGate == InitGate /\ [][NextGate]_vars

\* Password changes and logins of the two registered users.
InitPassword == InitWith({Catalog[1]})
NextPassword ==
    \E r \in Reqs :
        \/ \E u \in Users, currentPassword, newPassword,
              confirmNewPassword \in PasswordInputs :
              PutProfilePassword(r, u, currentPassword, newPassword,
                                 confirmNewPassword)
        \/ PutProfilePassword_update(r)
        \/ \E email \in LoginEmails, password \in PasswordInputs :
              PostLogin(r, email, password)
SpecPassword == InitPassword /\ [][NextPassword]_vars

\* The three chart routes on one connection, over every TopChart table of
\* two chart names and two dates and every ChartEntry table that places
\* catalog songs, and one song the catalog has not, on charts that exist.
\* No route writes these tables.
ChartReqs == {"r1"}
ChartSongInputs == {Catalog[1], Catalog[2], AbsentSong}
InitCharts ==
    /\ Song = {Catalog[1], Catalog[2]}
    /\ TopChart \in SUBSET {TopChartRow(name, date) :
                               name \in ChartNames, date \in ChartDates}
    /\ ChartEntry \in SUBSET {ChartEntryRow(c.chartName, c.chartDate, x) :
                                 c \in TopChart, x \in ChartSongInputs}
    /\ User = EmptyBag
    /\ Playlist = EmptyBag
    /\ Inclusion = EmptyBag
    /\ UserLike = EmptyBag
    /\ req = [r \in Reqs |-> Idle]
    /\ page = NoPage
NextCharts ==
    \E r \in ChartReqs :
        \/ GetTopCharts(r)
        \/ \E name \in ChartNames : GetTopChartDates(r, name)
        \/ \E name \in ChartNames, date \in ChartDates :
              GetTopChartSongs(r, name, date)
        \/ GetTopChartSongs_songs(r)
SpecCharts == InitCharts /\ [][NextCharts]_vars

\* Every route that writes, each of its statements either answered by the
\* store or rejected by it, over a catalog of one song.
InitFailure == InitWith({Catalog[1]})
NextFailure ==
    \E r \in Reqs :
        \/ Likes(r) \/ Playlists(r) \/ Profile(r)
        \/ \E route \in WriteRoutes : FirstQueryFails(r, route)
        \/ QueryFails(r)
SpecFailure == InitFailure /\ [][NextFailure]_vars

\* The Top Charts page over a store with the chart Hot on two dates and the
\* chart New on one, each with songs of its own.
InitTopChartsPage ==
    /\ Song = {Catalog[1], Catalog[2]}
    /\ TopChart = {TopChartRow("Hot", 1), TopChartRow("Hot", 2),
                   TopChartRow("New", 1)}
    /\ ChartEntry = {ChartEntryRow("Hot", 1, Catalog[1]),
                     ChartEntryRow("Hot", 2, Catalog[2]),
                     ChartEntryRow("New", 1, Catalog[1]),
                     ChartEntryRow("New", 1, Catalog[2])}
    /\ User = EmptyBag
    /\ Playlist = EmptyBag
    /\ Inclusion = EmptyBag
    /\ UserLike = EmptyBag
    /\ req = [r \in Reqs |-> Idle]
    /\ page = TopChartsMounted
NextTopChartsPage ==
    \/ \E chartName \in ChartNames \cup {""} : handleChartChange(chartName)
    \/ \E date \in {JsonDate(d) : d \in ChartDates} \cup {NoDate} :
          handleDateChange(date)
    \/ \E r \in Reqs :
          \/ TopChartsServed(r)
          \/ GetTopChartSongs_songs(r)
          \/ TopChartsAnswered(r)
          \/ TopChartsFetchFails(r)
SpecTopChartsPage == InitTopChartsPage /\ [][NextTopChartsPage]_vars

\* The Playlists page over a store that holds some of the page's playlists,
\* each with or without the one song of the catalog.
InitPlaylistsPage ==
    /\ Song = {Catalog[1]}
    /\ TopChart = {}
    /\ ChartEntry = {}
    /\ User = SetToBag({UserRow(u) : u \in PageUsernames})
    /\ \E P \in SUBSET PagePlaylists :
          /\ Playlist = SetToBag(P)
          /\ \E I \in SUBSET {InclusionRow(row.name, row.username, song) :
                                 row \in P, song \in Song} :
                Inclusion = SetToBag(I)
    /\ UserLike = EmptyBag
    /\ req = [r \in Reqs |-> Idle]
    /\ page = PlaylistsMounted
NextPlaylistsPage ==
    \/ \E playlist \in PagePlaylists : toggleExpand(playlist)
    \/ \E r \in Reqs :
          \/ PlaylistsAnswered(r)
          \/ PlaylistsFetchFails(r)
          \/ PlaylistSongsAnswered(r)
          \/ PlaylistSongsFetchFails(r)
          \/ BioAnswered(r)
          \/ BioFetchFails(r)
SpecPlaylistsPage == InitPlaylistsPage /\ [][NextPlaylistsPage]_vars

\* The Search page of alice, who likes some of the songs when it opens.
InitSearchPage ==
    /\ Song = CatalogOf(NumSongs)
    /\ TopChart = {}
    /\ ChartEntry = {}
    /\ User = SetToBag({UserRow(u) : u \in Users})
    /\ Playlist = EmptyBag
    /\ Inclusion = EmptyBag
    /\ \E L \in SUBSET Song : UserLike = SetToBag({UserLikeRow(PageUser, x) : x \in L})
    /\ req = [r \in Reqs |-> Idle]
    /\ page = SearchMounted
NextSearchPage ==
    \/ handleSubmit
    \/ \E song \in CatalogOf(NumSongs) : handleLikeToggle(song)
    \/ \E r \in Reqs :
          \/ SearchPageServed(r)
          \/ PostLikes_alreadyLiked(r)
          \/ PostLikes_insert(r)
          \/ DeleteLikes_delete(r)
          \/ SearchPageAnswered(r)
          \/ SearchPageFetchFails(r)
SpecSearchPage == InitSearchPage /\ [][NextSearchPage]_vars

(***************************************************************************)
(* What a step of connection r is.                                         *)
(***************************************************************************)
Step(r) == req'[r] # req[r]
Answered(r, route, status, message) == req[r] = Response(route, status, message)
Answers(r, status, message) ==
    /\ req'[r].pc = "done"
    /\ req'[r].status = status
    /\ req'[r].message = message
RowsOf(T, u) == {row \in Rows(T) : row.username = u}

(***************************************************************************)
(* C1.  After any interleaving of POST /likes, DELETE /likes and           *)
(* DELETE /profile, two concurrent POST /likes for one user and song       *)
(* included, UserLike holds every (username, songTitle, artistName,        *)
(* albumTitle) at most once.                                               *)
(***************************************************************************)
C1_UserLikeUnique == \A row \in Rows(UserLike) : CopiesIn(row, UserLike) = 1

\* Two POST /likes for one user and song have both passed the already-liked
\* check; one has inserted and was answered 201, the other is about to insert.
C1_Witness ==
    \E r1, r2 \in Reqs :
        /\ Answered(r1, "POST /likes", 201, "Song liked successfully.")
        /\ At(r2, "likes_insert")
        /\ BagIn(UserLikeRow(req[r2].user, req[r2].song), UserLike)

(***************************************************************************)
(* C2.  POST /likes for a triple that is not in Song answers 404;          *)
(* POST /likes for a song the caller likes when the already-liked check    *)
(* runs answers 400 "already liked"; DELETE /likes for a song the caller   *)
(* does not like answers 404; none of the three changes UserLike, and no   *)
(* like or unlike request changes a table in a step other than the one in  *)
(* which it answers 201 or 200.  (A body with a field missing carries no   *)
(* triple; it is answered 400 before any query.)                           *)
(***************************************************************************)
C2_LikeErrors ==
    [][\A r \in Reqs :
          /\ \A u \in Users, s \in SongInputs :
                PostLikes(r, u, s) /\ ~MissingField(s) /\ s \notin Song
                   => Answers(r, 404, "Song not found.") /\ UserLike' = UserLike
          /\ ( /\ At(r, "likes_alreadyLiked") /\ Step(r)
               /\ UserLikeRow(req[r].user, req[r].song) \in Rows(UserLike) )
                   => Answers(r, 400, "Song is already liked.") /\ UserLike' = UserLike
          /\ \A u \in Users, s \in SongInputs :
                DeleteLikes(r, u, s) /\ ~MissingField(s)
                                     /\ UserLikeRow(u, s) \notin Rows(UserLike)
                   => /\ Answers(r, 404, "Song is not in your liked songs.")
                      /\ UserLike' = UserLike
          /\ ( /\ Step(r) /\ req'[r].route \in {"POST /likes", "DELETE /likes"}
               /\ req'[r].status \notin {200, 201} )
                   => UNCHANGED tables
      ]_vars

\* A like of a liked song was answered 400 and an unlike of a song that is
\* not liked 404, with likes in the table.
C2_Witness ==
    \E r1, r2 \in Reqs :
        /\ Answered(r1, "POST /likes", 400, "Song is already liked.")
        /\ Answered(r2, "DELETE /likes", 404, "Song is not in your liked songs.")
        /\ UserLike # EmptyBag

(***************************************************************************)
(* C3.  A POST /likes that is answered 201 for user u and song s found s   *)
(* not liked by u and adds the row (u, s) and nothing else; the            *)
(* DELETE /likes for (u, s) that follows it passes its check and its       *)
(* DELETE statement gives back the table the like found.  Every            *)
(* DELETE /likes that is answered 200 removes the row (u, s) and leaves    *)
(* every other row, of u and of other users, in place.                     *)
(***************************************************************************)
C3_LikeThenUnlike ==
    [][\A r \in Reqs :
          /\ (At(r, "likes_insert") /\ req'[r].status = 201) =>
                LET u == req[r].user
                    s == req[r].song
                IN /\ s \in Song
                   /\ UserLikeRow(u, s) \notin Rows(UserLike)
                   /\ UserLike' = UserLike (+) SetToBag({UserLikeRow(u, s)})
                   /\ UserLikeRow(u, s) \in Rows(UserLike')
                   /\ DeleteUserLike(UserLike', u, s) = UserLike
          /\ (At(r, "unlike_delete") /\ Step(r)) =>
                LET row == UserLikeRow(req[r].user, req[r].song)
                IN /\ Answers(r, 200, "Song unliked successfully.")
                   /\ Rows(UserLike') = Rows(UserLike) \ {row}
                   /\ \A x \in Rows(UserLike') : UserLike'[x] = UserLike[x]
      ]_vars

\* A like and an unlike have both succeeded while other likes are in the table.
C3_Witness ==
    \E r1, r2 \in Reqs :
        /\ Answered(r1, "POST /likes", 201, "Song liked successfully.")
        /\ Answered(r2, "DELETE /likes", 200, "Song unliked successfully.")
        /\ UserLike # EmptyBag

(***************************************************************************)
(* C4.  POST /playlists with a name the caller owns a playlist of answers  *)
(* 400 "already exists" and leaves Playlist unchanged.  A playlist of the  *)
(* same name owned by another user does not block it: the request goes on  *)
(* to its INSERT, which, the caller's account and no such row being there, *)
(* is answered 201 and adds the caller's row beside the other user's.      *)
(***************************************************************************)
C4_CreatePlaylist ==
    [][\A r \in Reqs :
          /\ \A u \in Users, n \in NameInputs :
                PostPlaylists(r, u, n) /\ PlaylistRow(n, u) \in Rows(Playlist)
                   => /\ Answers(r, 400, "Playlist with this name already exists.")
                      /\ Playlist' = Playlist
          /\ \A u \in Users, n \in PlaylistNames :
                PostPlaylists(r, u, n) /\ PlaylistRow(n, u) \notin Rows(Playlist)
                   => req'[r].pc = "playlists_insert"
          /\ (At(r, "playlists_insert") /\ Step(r)) =>
                LET row == PlaylistRow(req[r].name, req[r].user)
                IN IF UserExists(req[r].user) /\ row \notin Rows(Playlist)
                   THEN /\ Answers(r, 201, "Playlist created successfully.")
                        /\ Playlist' = Playlist (+) SetToBag({row})
                   ELSE /\ req'[r].status = 500
                        /\ Playlist' = Playlist
      ]_vars

\* Both users have created a playlist of the same name.
C4_Witness ==
    /\ \A u \in Users : BagIn(PlaylistRow("mix", u), Playlist)
    /\ \E r \in Reqs : Answered(r, "POST /playlists", 201, "Playlist created successfully.")

(***************************************************************************)
(* C5.  DELETE /playlists/:name answers 404 and changes nothing when the   *)
(* caller owns no playlist of that name.  Otherwise its DELETE removes the *)
(* caller's (name, username) row and every Inclusion row of that playlist, *)
(* and no other row: afterwards no Playlist and no Inclusion row has that  *)
(* (name, username), and the playlist's songs are not found.               *)
(***************************************************************************)
C5_DeletePlaylist ==
    [][\A r \in Reqs :
          /\ \A u \in Users, n \in PlaylistNames :
                DeletePlaylist(r, u, n) /\ PlaylistRow(n, u) \notin Rows(Playlist)
                   => /\ Answers(r, 404, "Playlist not found.")
                      /\ UNCHANGED tables
          /\ (At(r, "playlist_delete") /\ Step(r)) =>
                LET n == req[r].name
                    u == req[r].user
                    mine(row) == row.name = n /\ row.username = u
                IN /\ Answers(r, 200, "Playlist deleted successfully.")
                   /\ Rows(Playlist') = {row \in Rows(Playlist) : ~mine(row)}
                   /\ Rows(Inclusion') = {row \in Rows(Inclusion) : ~mine(row)}
                   /\ GetPlaylistSongs(u, n)'.status = 404
                   /\ UNCHANGED <<Song, User, UserLike>>
      ]_vars

\* A playlist was deleted while the other user's playlist keeps its songs.
C5_Witness ==
    \E r \in Reqs, u \in Users :
        /\ Answered(r, "DELETE /playlists/:name", 200, "Playlist deleted successfully.")
        /\ UserExists(u) /\ ~BagIn(PlaylistRow("mix", u), Playlist)
        /\ RowsOf(Inclusion, u) = {}
        /\ \E v \in Users \ {u} : RowsOf(Inclusion, v) # {}

(***************************************************************************)
(* C6.  POST /playlists/:name/songs answers 404 "Playlist not found" if    *)
(* the caller owns no playlist of that name (whatever the song); then 404  *)
(* "Song not found" if the triple is not in Song; then 400 if the song is  *)
(* in the playlist already.  A step of the request changes Inclusion only  *)
(* when it is answered 201, and then it adds one row, for a playlist the   *)
(* caller owns and a song of the catalog that was not in the playlist.     *)
(***************************************************************************)
C6_AddSong ==
    [][\A r \in Reqs :
          /\ (Free(r) /\ req'[r].route = "POST /playlists/:name/songs") =>
                \A u \in Users, n \in PlaylistNames, s \in SongInputs :
                   PostPlaylistSongs(r, u, n, s) /\ ~MissingField(s)
                                                 /\ PlaylistRow(n, u) \notin Rows(Playlist)
                      => Answers(r, 404, "Playlist not found.") /\ Inclusion' = Inclusion
          /\ (At(r, "songs_song") /\ Step(r) /\ req[r].song \notin Song)
                   => Answers(r, 404, "Song not found.") /\ Inclusion' = Inclusion
          /\ ( /\ At(r, "songs_existingInclusion") /\ Step(r)
               /\ InclusionRow(req[r].name, req[r].user, req[r].song) \in Rows(Inclusion) )
                   => /\ Answers(r, 400, "Song is already in the playlist.")
                      /\ Inclusion' = Inclusion
          /\ (Step(r) /\ req'[r].route = "POST /playlists/:name/songs") =>
                IF req'[r].status = 201
                THEN LET row == InclusionRow(req[r].name, req[r].user, req[r].song)
                     IN /\ PlaylistRow(req[r].name, req[r].user) \in Rows(Playlist)
                        /\ req[r].song \in Song
                        /\ row \notin Rows(Inclusion)
                        /\ Inclusion' = Inclusion (+) SetToBag({row})
                ELSE Inclusion' = Inclusion
      ]_vars

\* One add was answered 201 and another 400 for a song already in the playlist.
C6_Witness ==
    \E r1, r2 \in Reqs :
        /\ Answered(r1, "POST /playlists/:name/songs", 201,
                    "Song added to playlist successfully.")
        /\ Answered(r2, "POST /playlists/:name/songs", 400,
                    "Song is already in the playlist.")

(***************************************************************************)
(* C7.  After any interleaving of the playlist routes, two concurrent adds *)
(* of one song to one playlist included, Inclusion holds every (name,      *)
(* username, songTitle, artistName, albumTitle) at most once.              *)
(***************************************************************************)
C7_InclusionUnique == \A row \in Rows(Inclusion) : CopiesIn(row, Inclusion) = 1

\* Two adds of one song to one playlist have both passed the
\* existingInclusion check; one has inserted, the other is about to.
C7_Witness ==
    \E r1, r2 \in Reqs :
        /\ Answered(r1, "POST /playlists/:name/songs", 201,
                    "Song added to playlist successfully.")
        /\ At(r2, "songs_insert")
        /\ BagIn(InclusionRow(req[r2].name, req[r2].user, req[r2].song), Inclusion)

(***************************************************************************)
(* C8.  DELETE /playlists/:name/songs answers 404 and changes nothing if   *)
(* the caller owns no playlist of that name, or if the song is not in that *)
(* playlist.  Otherwise its DELETE leaves the table without that row and   *)
(* with every other row (other songs, other users' playlists) in place.    *)
(***************************************************************************)
C8_RemoveSong ==
    [][\A r \in Reqs :
          /\ (Free(r) /\ req'[r].route = "DELETE /playlists/:name/songs") =>
                \A u \in Users, n \in PlaylistNames, s \in SongInputs :
                   DeletePlaylistSongs(r, u, n, s) /\ ~MissingField(s)
                                                   /\ PlaylistRow(n, u) \notin Rows(Playlist)
                      => Answers(r, 404, "Playlist not found.") /\ UNCHANGED tables
          /\ ( /\ At(r, "unsong_inclusion") /\ Step(r)
               /\ InclusionRow(req[r].name, req[r].user, req[r].song) \notin Rows(Inclusion) )
                   => Answers(r, 404, "Song not found in the playlist.") /\ UNCHANGED tables
          /\ (At(r, "unsong_delete") /\ Step(r)) =>
                LET row == InclusionRow(req[r].name, req[r].user, req[r].song)
                IN /\ Answers(r, 200, "Song removed from playlist successfully.")
                   /\ Rows(Inclusion') = Rows(Inclusion) \ {row}
                   /\ \A x \in Rows(Inclusion') : Inclusion'[x] = Inclusion[x]
                   /\ UNCHANGED <<Song, User, Playlist, UserLike>>
      ]_vars

\* A song was removed while another song and another user's playlist stay.
C8_Witness ==
    \E r \in Reqs, u \in Users :
        /\ Answered(r, "DELETE /playlists/:name/songs", 200,
                    "Song removed from playlist successfully.")
        /\ Cardinality(RowsOf(Inclusion, u)) = 1
        /\ \E v \in Users \ {u} : RowsOf(Inclusion, v) # {}

(***************************************************************************)
(* C9.  DELETE /profile of user u is answered 200 and leaves no Playlist,  *)
(* no Inclusion and no UserLike row of u: GET /playlists/all lists no      *)
(* playlist of u, GET /playlists/u/:name/songs answers 404 for every name, *)
(* and the rows of every other user, accounts included, are as before.     *)
(* Nor does a request of u still in flight bring a row back: after every   *)
(* step, each row of the three tables belongs to an existing account.      *)
(***************************************************************************)
C9_DeleteProfile ==
    [][/\ \A r \in Reqs, u \in Users :
             DeleteProfile(r, u) =>
                /\ Answers(r, 200, "Your account has been deleted successfully.")
                /\ ~UserExists(u)'
                /\ RowsOf(Playlist, u)' = {}
                /\ RowsOf(Inclusion, u)' = {}
                /\ RowsOf(UserLike, u)' = {}
                /\ \A row \in GetPlaylistsAll'.body : row.username # u
                /\ \A n \in PlaylistNames : GetPlaylistSongs(u, n)'.status = 404
                /\ \A T \in {<<User, User'>>, <<Playlist, Playlist'>>,
                             <<Inclusion, Inclusion'>>, <<UserLike, UserLike'>>} :
                      /\ \A row \in Rows(T[1]) :
                            row.username # u => CopiesIn(row, T[2]) = CopiesIn(row, T[1])
                      /\ Rows(T[2]) \subseteq Rows(T[1])
       /\ \A row \in Rows(Playlist') \cup Rows(Inclusion') \cup Rows(UserLike') :
             UserExists(row.username)'
      ]_vars

\* An account is gone while a request of its owner waits to add a song to
\* a playlist; the other user keeps a playlist, a song in it and a like.
C9_Witness ==
    \E r1, r2 \in Reqs, u \in Users :
        /\ Answered(r1, "DELETE /profile", 200,
                    "Your account has been deleted successfully.")
        /\ ~UserExists(u)
        /\ At(r2, "songs_insert") /\ req[r2].user = u
        /\ \E v \in Users \ {u} :
              /\ RowsOf(Playlist, v) # {}
              /\ RowsOf(Inclusion, v) # {}
              /\ RowsOf(UserLike, v) # {}

(***************************************************************************)
(* C10.  In every reachable state the (songTitle, artistName, albumTitle)  *)
(* of every Inclusion row and of every UserLike row is a row of Song.      *)
(***************************************************************************)
C10_SongsExist == \A row \in Rows(Inclusion) \cup Rows(UserLike) : SongOf(row) \in Song

\* A like and an add of a song outside the catalog were both refused while
\* both tables hold rows.
C10_Witness ==
    \E r1, r2 \in Reqs :
        /\ Answered(r1, "POST /likes", 404, "Song not found.")
        /\ Answered(r2, "POST /playlists/:name/songs", 404, "Song not found.")
        /\ Inclusion # EmptyBag
        /\ UserLike # EmptyBag

(***************************************************************************)
(* C11.  Whatever the caller likes, no row of the answer of                *)
(* GET /recommendations is a song whose (songTitle, artistName,            *)
(* albumTitle) the caller likes.                                           *)
(***************************************************************************)
C11_NoLikedSong ==
    [][\A r \in Reqs, u \in Users :
          GetRecommendations(r, u) =>
             \A i \in DOMAIN req'[r].body :
                UserLikeRow(u, SongOf(req'[r].body[i])) \notin Rows(UserLike)
      ]_vars

\* A caller who likes songs was answered with recommendations.
C11_Witness ==
    \E r \in Reqs :
        /\ req[r].pc = "done" /\ req[r].route = "GET /recommendations"
        /\ Len(req[r].body) >= 2
        /\ Cardinality(RowsOf(UserLike, req[r].user)) >= 2

C13_SameArtistRecommended ==
    [][\A r \in Reqs, u \in Users :
          GetRecommendations(r, u) =>
             \A s \in Song :
                ( /\ UserLikeRow(u, s) \notin Rows(UserLike)
                  /\ \E l \in RowsOf(UserLike, u) : l.artistName = s.artistName )
                => \E i \in DOMAIN req'[r].body :
                      /\ SongOf(req'[r].body[i]) = s
                      /\ req'[r].body[i].score >= 3
      ]_vars

\* The caller likes two songs of an artist and is recommended a third.
C13_Witness ==
    \E r \in Reqs :
        /\ req[r].pc = "done" /\ req[r].route = "GET /recommendations"
        /\ \E i \in DOMAIN req[r].body :
              LET row == req[r].body[i]
                  likes == RowsOf(UserLike, req[r].user)
              IN /\ row.score >= 3
                 /\ Cardinality({l \in likes : l.artistName = row.artistName}) = 2
                 /\ UserLikeRow(req[r].user, SongOf(row)) \notin likes

(***************************************************************************)
(* The searches that have been answered.                                   *)
(***************************************************************************)
Searched(r) == req[r].pc = "done" /\ req[r].route = "GET /search"

(***************************************************************************)
(* C14.  GET /search with liked=true and no x-auth-token is answered 401   *)
(* and carries no songs, whatever the other parameters.                    *)
(***************************************************************************)
C14_LikedNeedsCredential ==
    \A r \in Reqs :
       (Searched(r) /\ req[r].query.liked = "true" /\ req[r].token = NoToken) =>
          /\ req[r].status = 401
          /\ req[r].message = "Authentication required to filter liked songs."
          /\ "body" \notin DOMAIN req[r]

\* An anonymous liked search was refused although likes exist.
C14_Witness ==
    \E r \in Reqs :
        /\ Searched(r) /\ req[r].query.liked = "true" /\ req[r].token = NoToken
        /\ req[r].status = 401
        /\ \A u \in Users : RowsOf(UserLike, u) # {}

(***************************************************************************)
(* C15.  GET /search with liked=true and a verified token of user u is     *)
(* answered with exactly the songs that pass the other filters and whose   *)
(* (songTitle, artistName, albumTitle) u likes, each once: a song u does   *)
(* not like is not in the answer, also when u likes a song of its title.   *)
(***************************************************************************)
C15_LikedFilterByTriple ==
    \A r \in Reqs :
       ( /\ Searched(r) /\ req[r].query.liked = "true"
         /\ req[r].token # NoToken /\ Verifies(req[r].token) ) =>
          LET u == req[r].token.user
              others == {x[1] : x \in SearchJoin([req[r].query EXCEPT !.liked = ""], u)}
              wanted == {s \in others : UserLikeRow(u, s) \in Rows(UserLike)}
          IN /\ req[r].status = 200
             /\ {SongOf(req[r].body[i]) : i \in DOMAIN req[r].body} = wanted
             /\ Len(req[r].body) = Cardinality(wanted)

(***************************************************************************)
(* C16.  GET /search without songTitle, artistName, albumTitle, genreName  *)
(* and without liked=true is answered 200 with every song of Song, each    *)
(* once, ordered by plays: ascending when sortOrder put in upper case is   *)
(* ASC (so for ASC and for asc alike), descending when sortOrder is absent *)
(* or anything else.                                                       *)
(***************************************************************************)
Unfiltered(q) ==
    /\ q.songTitle = <<>> /\ q.artistName = <<>>
    /\ q.albumTitle = <<>> /\ q.genreName = <<>>
    /\ q.liked # "true"

NonDecreasing(body) == \A i, j \in DOMAIN body : i < j => body[i].plays <= body[j].plays
NonIncreasing(body) == \A i, j \in DOMAIN body : i < j => body[i].plays >= body[j].plays

AllSongsOnce(r) ==
    /\ req[r].status = 200
    /\ {SongOf(req[r].body[i]) : i \in DOMAIN req[r].body} = Song
    /\ Len(req[r].body) = Cardinality(Song)
    /\ \A i \in DOMAIN req[r].body :
          req[r].body[i].plays = Plays(SongOf(req[r].body[i]))

C16_AllSongsByPlays ==
    \A r \in Reqs :
       (Searched(r) /\ Unfiltered(req[r].query)) =>
          /\ AllSongsOnce(r)
          /\ IF toUpperCase(req[r].query.sortOrder) = <<"A", "S", "C">>
             THEN NonDecreasing(req[r].body)
             ELSE NonIncreasing(req[r].body)

\* sortOrder=asc was answered with all songs, fewest plays first.
C16_Witness ==
    \E r \in Reqs :
        /\ Searched(r) /\ Unfiltered(req[r].query)
        /\ req[r].query.sortOrder = <<"a", "s", "c">>
        /\ Len(req[r].body) >= 2
        /\ req[r].body[1].plays < req[r].body[Len(req[r].body)].plays

\* C16 as stated: ascending for the value ASC, descending for every other.
C16_AscendingOnlyForASC ==
    \A r \in Reqs :
       (Searched(r) /\ Unfiltered(req[r].query)) =>
          /\ AllSongsOnce(r)
          /\ IF req[r].query.sortOrder = <<"A", "S", "C">>
             THEN NonDecreasing(req[r].body)
             ELSE NonIncreasing(req[r].body)

(***************************************************************************)
(* C17.  POST /login with a non-empty email and a non-empty password       *)
(* gives one and the same answer, status and message alike, when the email *)
(* is not registered and when the password does not match the registered   *)
(* one.                                                                    *)
(***************************************************************************)
C17_LoginFailuresAlike ==
    [][\A r \in Reqs, email \in LoginEmails \ {""}, password \in Passwords :
          PostLogin(r, email, password) =>
             LET found == {row \in Rows(User) : row.email = email}
                 failed == Response("POST /login", 400,
                                    "Invalid email or password.")
             IN /\ found = {} => req'[r] = failed
                /\ (\A row \in found : row.password.digest[2] # password)
                      => req'[r] = failed
                /\ req'[r] # failed
                      => /\ req'[r].status = 200
                         /\ \E row \in found :
                               /\ row.password.digest[2] = password
                               /\ req'[r].user = row.username]_vars

\* Both failures have happened: one connection was answered for an email
\* nobody registered, the other for bob's email and a password that is not
\* bob's.
C17_Witness ==
    /\ req["r1"] = Response("POST /login", 400, "Invalid email or password.")
    /\ req["r2"] = Response("POST /login", 400, "Invalid email or password.")
    /\ \E row \in Rows(User) : row.email = "bob" /\ row.username = "bob"

\* No two rows of User share a username, and no two share an email.
UserKeys ==
    /\ \A row \in Rows(User) : CopiesIn(row, User) = 1
    /\ \A row, other \in Rows(User) :
          row # other => /\ row.username # other.username
                         /\ row.email # other.email

(***************************************************************************)
(* C18.  POST /register whose username is in User when the handler looks   *)
(* for it, or whose email is in User when the handler looks for it, is     *)
(* answered 400 with the message of that conflict and leaves User as it    *)
(* is; an insert that finds the username or the email taken after all adds *)
(* no row and is answered with an error; only a 201 adds a row, one row.   *)
(* In every state, two concurrent registrations with one username or one   *)
(* email included, no two User rows share a username and no two share an   *)
(* email.                                                                  *)
(***************************************************************************)
C18_RegisterUnique ==
    [][/\ \A r \in Reqs, username, email, password \in Users :
             (PostRegister(r, username, email, password) /\ UserExists(username))
                => /\ Answers(r, 400, UsernameTaken)
                   /\ User' = User
       /\ \A r \in Reqs :
             (/\ PostRegister_existingEmail(r)
              /\ \E row \in Rows(User) : row.email = req[r].email)
                => /\ Answers(r, 400, EmailRegistered)
                   /\ User' = User
       /\ \A r \in Reqs :
             (/\ PostRegister_insert(r)
              /\ \E row \in Rows(User) : \/ row.username = req[r].user
                                         \/ row.email = req[r].email)
                => /\ req'[r].pc = "done"
                   /\ req'[r].status >= 400
                   /\ User' = User
       /\ \A r \in Reqs :
             (Step(r) /\ req'[r].route = "POST /register" /\ User' # User)
                => /\ req'[r].status = 201
                   /\ \E row \in Rows(User') :
                         /\ row \notin Rows(User)
                         /\ User' = InsertRow(User, row)
       /\ UserKeys']_vars

\* Two registrations were in flight together, both past their checks: one
\* was answered 201 and the other, refused by the store, 500, and bob's
\* email is in User once.
C18_Witness ==
    /\ req["r1"].route = "POST /register" /\ req["r1"].status = 201
    /\ req["r2"].route = "POST /register" /\ req["r2"].status = 500
    /\ Cardinality({row \in Rows(User) : row.email = "bob"}) = 1

(***************************************************************************)
(* C19.  A request to a protected route (profile get, update and delete,   *)
(* own playlist create, list and delete, add, remove and list songs of an  *)
(* own playlist, likes, recommendations) that carries no credential, an    *)
(* expired one or one not signed by the server is answered 401 in that     *)
(* step, with no statement of the handler awaited and every table as it    *)
(* was; no step that answers 401 changes a table.                          *)
(***************************************************************************)
C19_ProtectedRoutes ==
    [][\A r \in GateReqs :
          (Step(r) /\ req'[r].route \in ProtectedRoutes) =>
             LET route == req'[r].route
             IN /\ \A token \in Credentials :
                      (token.kind # "signed" /\ Protected(r, route, token))
                         => /\ req'[r] = Response(route, 401, "Unauthorized")
                            /\ UNCHANGED tables
                /\ req'[r].status = 401
                      => /\ req'[r].pc = "done"
                         /\ UNCHANGED tables]_vars

\* DELETE /profile was refused while alice had a playlist with a song in it
\* and a like: all of it is still there.
C19_Witness ==
    /\ req["r1"] = Response("DELETE /profile", 401, "Unauthorized")
    /\ UserExists("alice")
    /\ RowsOf(Playlist, "alice") # {}
    /\ RowsOf(Inclusion, "alice") # {}
    /\ RowsOf(UserLike, "alice") # {}

(***************************************************************************)
(* C20.  GET /search with a token that jwt.verify rejects (expired, or not *)
(* signed with the secret) is answered as the same request without token:  *)
(* no identity is attached, the answer is 200 with the songs, or 401 and   *)
(* then only because liked=true, and the answers it can get are the        *)
(* answers the request without token can get.                              *)
(***************************************************************************)
C20_InvalidTokenIsNoToken ==
    \A r \in Reqs :
       (Searched(r) /\ req[r].token # NoToken /\ ~Verifies(req[r].token)) =>
          /\ req[r].user = NoUser
          /\ req[r].status \in {200, 401}
          /\ req[r].status = 401 <=> req[r].query.liked = "true"
          /\ {[res EXCEPT !.token = NoToken] :
                 res \in Search(req[r].token, req[r].query)}
                = Search(NoToken, req[r].query)
          /\ [req[r] EXCEPT !.token = NoToken] \in Search(NoToken, req[r].query)

\* A liked search with the expired token of a user who likes songs was
\* refused as an anonymous one.
C20_Witness ==
    \E r \in Reqs :
        /\ Searched(r) /\ req[r].token = Token("expired", "alice")
        /\ req[r].query.liked = "true" /\ req[r].status = 401
        /\ RowsOf(UserLike, "alice") # {}

\* The passwords the stored hash of user u was made from.
StoredPasswords(u) == {row.password.digest[2] : row \in RowsOf(User, u)}

(***************************************************************************)
(* C21.  PUT /profile/password with all three fields: when newPassword     *)
(* differs from confirmNewPassword it is answered 400 'New passwords do    *)
(* not match.'; when they agree and currentPassword is not the password    *)
(* the stored hash was made from, 400 'Current password is incorrect.'.    *)
(* In both cases User is unchanged and every login is answered as it was   *)
(* before: with the old password 200, with the new one 400.  The handler   *)
(* goes on to its update only when the two agree and currentPassword is    *)
(* the stored one, and the update changes nothing but the password of the  *)
(* caller's row, to a hash of newPassword.                                 *)
(***************************************************************************)
C21_ChangePassword ==
    [][\A r \in Reqs :
          /\ (Free(r) /\ req'[r].route = "PUT /profile/password") =>
                \A u \in Users, currentPassword, newPassword,
                   confirmNewPassword \in Passwords :
                   PutProfilePassword(r, u, currentPassword, newPassword,
                                      confirmNewPassword) =>
                      /\ User' = User
                      /\ newPassword # confirmNewPassword
                            => Answers(r, 400, "New passwords do not match.")
                      /\ (/\ newPassword = confirmNewPassword
                          /\ UserExists(u)
                          /\ currentPassword \notin StoredPasswords(u))
                            => Answers(r, 400, "Current password is incorrect.")
                      /\ req'[r].pc = "done" =>
                            \A email \in LoginEmails, password \in Passwords :
                               Login(email, password)' = Login(email, password)
                      /\ (req'[r].pc = "done" /\ UserExists(u)) =>
                            \A old \in StoredPasswords(u) :
                               /\ \E res \in Login(u, old)' : res.status = 200
                               /\ newPassword # old =>
                                     \A res \in Login(u, newPassword)' :
                                        res.status = 400
                      /\ req'[r].pc # "done" =>
                            /\ newPassword = confirmNewPassword
                            /\ currentPassword \in StoredPasswords(u)
                            /\ req'[r].password = newPassword
          /\ (Step(r) /\ User' # User /\ req[r].route = "PUT /profile/password") =>
                /\ At(r, "password_update")
                /\ Answers(r, 200,
                           "Password updated successfully. Please log in with your new password.")
                /\ \A u \in Users :
                      IF u = req[r].user
                      THEN \E salt \in Salts :
                              RowsOf(User, u)' =
                                 {[row EXCEPT !.password =
                                                 Hash(req[r].password, salt)] :
                                     row \in RowsOf(User, u)}
                      ELSE RowsOf(User, u)' = RowsOf(User, u)]_vars

\* alice tried to change her password with a wrong current password and was
\* refused, and then logged in on the other connection with the old one.
C21_Witness ==
    /\ Answered("r1", "PUT /profile/password", 400,
                "Current password is incorrect.")
    /\ req["r2"] = LoggedIn(UserRow("alice"))

(***************************************************************************)
(* C22.  GET /top-charts is always answered 200, with the chart names of   *)
(* TopChart, so with none when TopChart is empty.  GET                     *)
(* /top-charts/:name/dates is answered 404 exactly when no TopChart row    *)
(* has the name, and otherwise 200 with the dates of the chart, latest     *)
(* first.  GET /top-charts/:name/:date/songs is answered 404 exactly when  *)
(* no TopChart row has the name and the date, and otherwise 200 with the   *)
(* catalog songs ChartEntry places on the chart, an empty list when there  *)
(* is no ChartEntry row for it.                                            *)
(***************************************************************************)
C22_TopCharts ==
    \A r \in ChartReqs :
       LET q == req[r]
           charts == {row \in TopChart : row.chartName = q.name}
           chart == {row \in charts : row.chartDate = q.date}
           entries == {row \in ChartEntry : /\ row.chartName = q.name
                                            /\ row.chartDate = q.date}
       IN /\ (q.pc = "done" /\ q.route = "GET /top-charts") =>
                /\ q.status = 200
                /\ q.body = {row.chartName : row \in TopChart}
                /\ TopChart = {} => q.body = {}
          /\ (q.pc = "done" /\ q.route = "GET /top-charts/:name/dates") =>
                /\ q.status \in {200, 404}
                /\ q.status = 404 <=> charts = {}
                /\ q.status = 200 =>
                      /\ {q.body[i] : i \in DOMAIN q.body} =
                            {row.chartDate : row \in charts}
                      /\ \A i, j \in DOMAIN q.body : i < j => q.body[i] > q.body[j]
          /\ q.route = "GET /top-charts/:name/:date/songs" =>
                /\ q.pc # "done" => chart # {}
                /\ q.pc = "done" =>
                      /\ q.status \in {200, 404}
                      /\ q.status = 404 <=> chart = {}
                      /\ q.status = 200 =>
                            /\ {q.body[i] : i \in DOMAIN q.body} =
                                  {x \in Song : \E row \in entries : SongOf(row) = x}
                            /\ Len(q.body) = Cardinality({q.body[i] : i \in DOMAIN q.body})
                            /\ entries = {} => q.body = <<>>

\* The songs of a chart that exists and has no ChartEntry row were asked
\* for and came back as an empty list, while another chart has entries.
C22_Witness ==
    /\ req["r1"].pc = "done"
    /\ req["r1"].route = "GET /top-charts/:name/:date/songs"
    /\ req["r1"].status = 200
    /\ req["r1"].body = <<>>
    /\ TopChartRow(req["r1"].name, req["r1"].date) \in TopChart
    /\ ChartEntry # {}

(***************************************************************************)
(* C23.  When the store rejects a statement of a handler, the first or a   *)
(* later one, the request is answered 500 with the route's generic message *)
(* in that step and is over, and every table is as it was.  No step of a   *)
(* request that leaves it awaiting a statement changes a table, and no     *)
(* step that answers 500 does: a request that ends with 500 has changed    *)
(* nothing.                                                                *)
(***************************************************************************)
C23_StoreFailure ==
    [][\A r \in Reqs :
          Step(r) =>
             /\ QueryFails(r) =>
                   /\ Answers(r, 500, ServerError(req[r].route))
                   /\ req'[r].route = req[r].route
                   /\ UNCHANGED tables
             /\ (Free(r) /\ req'[r].route \in WriteRoutes) =>
                   (FirstQueryFails(r, req'[r].route) =>
                      /\ Answers(r, 500, ServerError(req'[r].route))
                      /\ UNCHANGED tables)
             /\ ~Free(r)' => UNCHANGED tables
             /\ req'[r].status = 500 =>
                   /\ Free(r)'
                   /\ UNCHANGED tables]_vars

\* alice's POST /likes was answered 500 although nobody ever deleted an
\* account or liked a song and the other connection was never used: the
\* store rejected one of its statements.
C23_Witness ==
    /\ Answered("r1", "POST /likes", 500,
                "Server error while liking song. Please try again later.")
    /\ req["r2"] = Idle
    /\ UserLike = EmptyBag
    /\ \A u \in Users : UserExists(u)
    /\ Playlist # EmptyBag

Owned(T, u) == [row \in RowsOf(T, u) |-> T[row]]

\* Nothing that belongs to a user other than u changes in this step.
OthersUntouched(u) ==
    \A other \in Users \ {u} :
       /\ Owned(User, other)' = Owned(User, other)
       /\ Owned(Playlist, other)' = Owned(Playlist, other)
       /\ Owned(Inclusion, other)' = Owned(Inclusion, other)
       /\ Owned(UserLike, other)' = Owned(UserLike, other)

C26_References ==
    /\ \A row \in Rows(Inclusion) : PlaylistExists(row.name, row.username)
    /\ \A row \in Rows(Playlist) : UserExists(row.username)
    /\ \A row \in Rows(UserLike) : UserExists(row.username)

\* An add-song request was answered 500 at its insert and the playlist was
\* deleted on the other connection: no playlist is left, and no Inclusion
\* row of it.
C26_Witness ==
    /\ Answered("r1", "POST /playlists/:name/songs", 500,
                "Server error while adding song to playlist. Please try again later.")
    /\ Answered("r2", "DELETE /playlists/:name", 200,
                "Playlist deleted successfully.")
    /\ Playlist = EmptyBag
    /\ Inclusion = EmptyBag
    /\ \A u \in Users : UserExists(u)

(***************************************************************************)
(* C27.  In every row of the answer of GET /recommendations the album      *)
(* part of the score is 2 when the caller likes a song of the row's album, *)
(* the album being its albumTitle together with its artistName, and 0      *)
(* otherwise: a row whose albumTitle is that of a liked song of another    *)
(* artist only gets nothing for the album.                                 *)
(***************************************************************************)
C27_AlbumByTitleAndArtist ==
    [][\A r \in Reqs, u \in Users :
          GetRecommendations(r, u) =>
             \A i \in DOMAIN req'[r].body :
                LET row == req'[r].body[i]
                    likes == RowsOf(UserLike, u)
                    artist == \E l \in likes : l.artistName = row.artistName
                    album == \E l \in likes : /\ l.albumTitle = row.albumTitle
                                              /\ l.artistName = row.artistName
                    genre == \E l \in likes : GenreOf(SongOf(l)) = row.genreName
                    N(b) == IF b THEN 1 ELSE 0
                IN row.score - 3 * N(artist) - 1 * N(genre) = 2 * N(album)
      ]_vars

\* What the server answers for the dates of a chart and for the songs of a
\* chart on a date, as the page stores it.
DatesOf(chart) ==
    LET dates == {row.chartDate : row \in {x \in TopChart : x.chartName = chart}}
        body == CHOOSE q \in OrderBy(dates, LAMBDA x, y : x > y) : TRUE
    IN [i \in DOMAIN body |-> JsonDate(body[i])]
SongsOf(chart, date) ==
    CHOOSE q \in OrderBy(ChartSongs(chart, date),
                         LAMBDA x, y : Plays(x) > Plays(y)) : TRUE

(***************************************************************************)
(* C28.  On the Top Charts page, when no request is outstanding, no        *)
(* loading flag is set, the dates list is the server's answer for the      *)
(* selected chart, and the songs list is the server's answer for the       *)
(* selected chart and date.                                                *)
(***************************************************************************)
C28_SettledShowsSelection ==
    (\A r \in Reqs : page.fetch[r] = NoFetch) =>
       /\ ~page.loadingCharts /\ ~page.loadingDates /\ ~page.loadingSongs
       /\ page.selectedChart # "" =>
             page.availableDates = DatesOf(page.selectedChart)
       /\ page.selectedDate # NoDate =>
             page.songs = SongsOf(page.selectedChart, SplitT(page.selectedDate))

(***************************************************************************)
(* C29.  On the Playlists page, the songs shown for the expanded playlist  *)
(* are the songs of that playlist's own (name, username) pair, and no      *)
(* entry of the songs cache is the entry of two distinct playlists.  (The  *)
(* store does not change while the page is open here, so the songs fetched *)
(* for a pair are the songs the route answers for it.)                     *)
(***************************************************************************)
C29_OwnSongsShown ==
    page.name = "Playlists" =>
       /\ \A playlist \in page.playlists :
             /\ page.expandedPlaylist = playlist
             /\ SongsKey(playlist) \in DOMAIN page.songs
             => page.songs[SongsKey(playlist)]
                   = GetPlaylistSongs(playlist.username, playlist.name).body
       /\ \A p, q \in page.playlists :
             p # q /\ SongsKey(p) \in DOMAIN page.songs
             => SongsKey(q) # SongsKey(p)

(***************************************************************************)
(* C30.  On the Search page of a logged-in user, a toggle sends POST       *)
(* /likes only for a song the server does not record as liked by the user  *)
(* and DELETE /likes only for one it does, and no toggle is answered with  *)
(* 400 "Song is already liked." or with 404.                               *)
(***************************************************************************)
C30_ToggleMatchesServer ==
    [][\A r \in Reqs :
          /\ /\ page.name = "Search"
             /\ page.fetch[r] = NoRequest
             /\ page'.fetch[r].kind \in {"like", "unlike"}
             => (page'.fetch[r].kind = "unlike"
                   <=> Liked(PageUser, page'.fetch[r].song))
          /\ /\ page.name = "Search"
             /\ page.fetch[r].kind \in {"like", "unlike"}
             /\ Step(r)
             /\ req'[r].pc = "done"
             => /\ req'[r].status # 404
                /\ req'[r].message # "Song is already liked."]_vars

=============================================================================
